---- MODULE Spec2Model ----
(***************************************************************************)
(* The consensus fetch of the wallet's service worker                      *)
(* (service_worker/entities/wallets/data.ts, tryEthereumFetch): one RPC    *)
(* request is sent on every connection of every circuit pool of a chain,   *)
(* the answers of one circuit are voted on, and the circuit-level answers  *)
(* are voted on again.  The retry-based fetch (content_script/index.ts,    *)
(* tryEthereumFetch) tries one random circuit and one random connection at *)
(* a time instead.                                                         *)
(***************************************************************************)
EXTENDS Integers, Sequences, FiniteSets, TLC

(***************************************************************************)
(* Bounds of the model.                                                    *)
(***************************************************************************)
\* circuit pools of one chain (pools.capacity)
MaxPools == 3
\* connections of one circuit pool (pool.capacity)
MaxConns == 3
\* connections of all the circuit pools of one chain together
MaxTotal == 4
\* distinct JSON texts a node can answer with
NumPayloads == 2
\* chain ids a directory can hold
NumChains == 2
\* length of the outcome sequences the votes are applied to on their own
MaxOutcomes == 5
\* distinct JSON texts in those outcome sequences
NumVotePayloads == 3
\* fetches that run at the same time on one connection
NumFetches == 2
\* the longest step of the clock, in ms
TickMs == 2500
\* ms after which the age of an exchange is no longer counted
MaxElapsed == 10000
\* draws of an already tried candidate that are counted in one draw loop
MaxRedraws == 2
\* brumes of a session (ethereum.brumes)
NumBrumes == 2
\* attempts of a tryLoop that is given no `max`
DefaultMax == 3
\* connections of a chain where a fetch is followed to its return, or over
\* successive calls
MaxWaiting == 2
\* requests counted on one connection over successive calls
MaxSent == 2

(***************************************************************************)
(* Values.  A Fetched<T, Error> is Data(inner) or Fail(inner).  Its inner  *)
(* is the JSON value of an RpcOk, or the RpcError of an RpcErr; `inner` is *)
(* modelled by the JSON text it serialises to.                             *)
(***************************************************************************)
Data(p) == [tag |-> "data", inner |-> p]
Fail(p) == [tag |-> "fail", inner |-> p]

FetchedsOf(n) == {Data(p) : p \in 1..n} \cup {Fail(p) : p \in 1..n}

\* the element of Promise.allSettled for a promise that threw `err`
Rejected(err) == [status |-> "rejected", value |-> [tag |-> err, inner |-> 0]]
\* the element of Promise.allSettled for a promise that returned `f`
Fulfilled(f) == [status |-> "fulfilled", value |-> f]

AggregateError == "AggregateError"
CouldNotChooseTruth == "Error: Could not choose truth"
PanicError == "Panic"
\* what unwrap() throws on the error of a pool entry, or on None
UnwrapError == "Error: unwrap"
\* what result.unwrap() throws on the Err of an exchange (network error, timeout)
ExchangeError == "Error: exchange"
\* the Err of Option.ok() on None
NoneError == "NoneError"
\* the Err of tryLoop once `max` attempts asked for a retry
TooManyRetriesError == "TooManyRetriesError"
\* the Err of tryLoop on a Cancel
CancelError == "Cancel"

\* JSON.stringify(result.value.inner): the serialisation of the inner value
\* alone; whether the Fetched is a Data or a Fail is not part of the key.
Stringify(f) == f.inner

(***************************************************************************)
(* Map<string, V>: a sequence of entries [key, value] in insertion order.  *)
(* Map.set on a key the map holds replaces the value in place.             *)
(***************************************************************************)
MapHas(map, key) == \E i \in 1..Len(map) : map[i].key = key

MapGet(map, key) == map[CHOOSE i \in 1..Len(map) : map[i].key = key].value

MapSet(map, key, value) ==
    IF MapHas(map, key)
    THEN [i \in 1..Len(map) |->
            IF map[i].key = key THEN [key |-> key, value |-> value] ELSE map[i]]
    ELSE Append(map, [key |-> key, value |-> value])

\* Option.wrap(counters.get(raw)).unwrapOr(0)
GetOrZero(counters, raw) == IF MapHas(counters, raw) THEN MapGet(counters, raw) ELSE 0

\* counters.set(raw, previous + 1)
Increment(counters, raw) == MapSet(counters, raw, GetOrZero(counters, raw) + 1)

(***************************************************************************)
(* [...Maps.entries(counters)].sort((a, b) => b.value - a.value): a stable *)
(* sort by descending value; entries of equal value keep insertion order.  *)
(***************************************************************************)
\* the comparator with its operands exchanged: an ascending sort
CompareAscending(a, b) == a.value - b.value

\* the comparator: negative when a sorts before b
Compare(a, b) == b.value - a.value

RECURSIVE InsertSorted(_, _)
InsertSorted(sorted, e) ==
    IF sorted = <<>> THEN <<e>>
    ELSE IF Compare(Head(sorted), e) <= 0
         THEN <<Head(sorted)>> \o InsertSorted(Tail(sorted), e)
         ELSE <<e>> \o sorted

\* the entries left in insertion order
SortSkipped(entries) == entries

RECURSIVE Sort(_)
Sort(entries) ==
    IF entries = <<>> THEN <<>>
    ELSE InsertSorted(Sort(SubSeq(entries, 1, Len(entries) - 1)), entries[Len(entries)])

(***************************************************************************)
(* Promise.any(promises) once Promise.allSettled(promises) has returned:   *)
(* every promise is settled, the reactions run in index order, so the      *)
(* first fulfilled promise in index order decides; with none fulfilled     *)
(* (or no promise at all) it rejects with an AggregateError.               *)
(***************************************************************************)
\* Promise.all in its place: one rejection rejects the whole
PromiseAll(results) ==
    IF \E i \in 1..Len(results) : results[i].status = "rejected"
    THEN results[CHOOSE i \in 1..Len(results) :
                    /\ results[i].status = "rejected"
                    /\ \A j \in 1..(i - 1) : results[j].status = "fulfilled"]
    ELSE IF results = <<>> THEN Rejected(AggregateError) ELSE results[1]

\* Promise.race in its place: the first settled promise decides, rejected or not
PromiseRace(results) ==
    IF results = <<>> THEN Rejected(AggregateError) ELSE results[1]

PromiseAny(results) ==
    IF \E i \in 1..Len(results) : results[i].status = "fulfilled"
    THEN results[CHOOSE i \in 1..Len(results) :
                    /\ results[i].status = "fulfilled"
                    /\ \A j \in 1..(i - 1) : results[j].status = "rejected"]
    ELSE Rejected(AggregateError)

(***************************************************************************)
(* runWithPoolOrThrow, after the join: the vote over the connections of    *)
(* one circuit.  `results` is what Promise.allSettled returned, in index   *)
(* order.  The result is how the promise of runWithPoolOrThrow settles.    *)
(***************************************************************************)
\* a tally that skips the RpcError of a node like a failed exchange
RECURSIVE connCountersOfData(_)
connCountersOfData(results) ==
    IF results = <<>> THEN <<>>
    ELSE LET before == connCountersOfData(SubSeq(results, 1, Len(results) - 1))
             result == results[Len(results)]
         IN IF result.status = "rejected" \/ result.value.tag = "fail" THEN before
            ELSE Increment(before, Stringify(result.value))

RECURSIVE connCounters(_)
connCounters(results) ==
    IF results = <<>> THEN <<>>
    ELSE LET before == connCounters(SubSeq(results, 1, Len(results) - 1))
             result == results[Len(results)]
         IN IF result.status = "rejected" THEN before
            ELSE Increment(before, Stringify(result.value))

RECURSIVE connFetcheds(_)
connFetcheds(results) ==
    IF results = <<>> THEN <<>>
    ELSE LET before == connFetcheds(SubSeq(results, 1, Len(results) - 1))
             result == results[Len(results)]
         IN IF result.status = "rejected" THEN before
            ELSE MapSet(before, Stringify(result.value), result.value)

\* a tally that is never looked at: the first answer is returned
connOneTruthAlways(counters) == TRUE

\* counters.size < 2
connOneTruth(counters) == Len(counters) < 2

\* the keys compared instead of the counts
connTwoTruthsByKey(sorteds) == sorteds[1].key = sorteds[2].key

\* a tie of the connections that is never seen: the first of the sort is returned
connTwoTruthsNever(sorteds) == FALSE

\* sorteds[0].value === sorteds[1].value
connTwoTruths(sorteds) == sorteds[1].value = sorteds[2].value

\* a vote that any failed connection makes fail, with the failure of that
\* connection
runWithPoolAll(results) ==
    IF \E i \in 1..Len(results) : results[i].status = "rejected"
    THEN results[CHOOSE i \in 1..Len(results) : results[i].status = "rejected"]
    ELSE PromiseAny(results)

runWithPoolVote(results) ==
    LET counters == connCounters(results)
        fetcheds == connFetcheds(results)
        sorteds == Sort(counters)
    IN IF connOneTruth(counters) THEN PromiseAny(results)
       ELSE IF connTwoTruths(sorteds) THEN Rejected(CouldNotChooseTruth)
       ELSE Fulfilled(MapGet(fetcheds, sorteds[1].key))

(***************************************************************************)
(* tryEthereumFetch, after the join: the vote over the circuits.           *)
(***************************************************************************)
RECURSIVE poolCounters(_)
poolCounters(results) ==
    IF results = <<>> THEN <<>>
    ELSE LET before == poolCounters(SubSeq(results, 1, Len(results) - 1))
             result == results[Len(results)]
         IN IF result.status = "rejected" THEN before
            ELSE Increment(before, Stringify(result.value))

RECURSIVE poolFetcheds(_)
poolFetcheds(results) ==
    IF results = <<>> THEN <<>>
    ELSE LET before == poolFetcheds(SubSeq(results, 1, Len(results) - 1))
             result == results[Len(results)]
         IN IF result.status = "rejected" THEN before
            ELSE MapSet(before, Stringify(result.value), result.value)

\* counters.size < 2
poolOneTruth(counters) == Len(counters) < 2

\* the keys compared instead of the counts
poolTwoTruthsByKey(sorteds) == sorteds[1].key = sorteds[2].key

\* a tie of the circuits that is never seen: the first of the sort is returned
poolTwoTruthsNever(sorteds) == FALSE

\* sorteds[0].value === sorteds[1].value
poolTwoTruths(sorteds) == sorteds[1].value = sorteds[2].value

\* the first circuit that answered, without a vote
tryEthereumFetchFirst(results) == PromiseAny(results)

\* a vote that any failed circuit makes fail, with the failure of that circuit
tryEthereumFetchAll(results) ==
    IF \E i \in 1..Len(results) : results[i].status = "rejected"
    THEN results[CHOOSE i \in 1..Len(results) : results[i].status = "rejected"]
    ELSE PromiseAny(results)

tryEthereumFetchVote(results) ==
    LET counters == poolCounters(results)
        fetcheds == poolFetcheds(results)
        sorteds == Sort(counters)
    IN IF poolOneTruth(counters) THEN PromiseAny(results)
       ELSE IF poolTwoTruths(sorteds) THEN Rejected(CouldNotChooseTruth)
       ELSE Fulfilled(MapGet(fetcheds, sorteds[1].key))

(***************************************************************************)
(* State.                                                                  *)
(***************************************************************************)
VARIABLES
    brume,      \* ethereum.brume: chain id -> [present, pools]
    chainId,    \* ethereum.chain.chainId
    pc,         \* tryEthereumFetch: "idle", "running", "done"
    returned,   \* what tryEthereumFetch returned: a Result, "pending" before
    poolPc,     \* runWithPoolOrThrow(i): "new", "get", "join", "settled"
    poolPromise,\* promises[i] of tryEthereumFetch
    connPc,     \* runWithConnOrThrow(j) of pool i: "new", "get", "cooldown", "sent", "settled"
    connPromise,\* promises[j] of runWithPoolOrThrow(i)
    sends,      \* requests sent on connection j of pool i of chain c
    fetcher,    \* the tryEthereumFetch called: "consensus" (data.ts), "retry" (index.ts)
    loopPc,     \* the retry-based fetch: where its loops stand
    allTriedPools, \* indexes of the circuit pools drawn in this call
    allTriedConns, \* indexes of the connections drawn in this pool attempt
    drawn,      \* <<pool, conn>> drawn last, 0 for none
    attempts,   \* <<i, j>>: the attempts made by the outer and the inner tryLoop
    supply,     \* <<pools, conns>>: the indexes whose entry a random draw can return
    redraws,    \* draws of the current draw loop that returned a tried candidate
    errors,     \* <<outer, inner>>: the errors of the attempts of each tryLoop
    innerReturned, \* what the inner tryLoop returned last
    brumes,     \* ethereum.brumes of tryFetch: what the entry at each index holds
    votePc,     \* the votes applied on their own: "input", "voted"
    voteIn,     \* the settled results the votes are applied to
    connVote,   \* runWithPoolVote(voteIn)
    poolVote,   \* tryEthereumFetchVote(voteIn)
    shared,     \* the kind of a connection several fetches run on: "url", "ws"
    gate,       \* connection.cooldown of that connection: the fetches it serialises
    sendPc,     \* fetch f on that connection: "idle", "get", "cooldown", "sent", "settled"
    presignal,  \* more.signal of fetch f: "none", "armed", "aborted"
    passed,     \* the signal fetch f passed to its exchange
    sendResult, \* how the exchange of fetch f ended
    sinceCall,  \* ms since fetch f was called
    sentFor,    \* ms the exchange of fetch f has been in flight
    walletStates,  \* the state of the query Wallet.schema(uuid): its data, or none
    indexing,   \* the indexer of Wallet.schema(uuid): where it stands, and its states
    walletsIndex,  \* the data of Wallets.schema: the references of the `wallets` key
    walletsBySeed, \* the data of WalletsBySeed.Background.schema(seed)
    writes,     \* mutations of the entities made so far
    reverse,    \* BgEns.Reverse.tryFetch: its address, where it stands, what it got
    pricedBalance, \* the data of getPricedBalance and getTokenPricedBalance, by account and key
    balanceIndexing, \* the indexers run for a priced balance: where they stand, what they hold
    pricedBalanceByToken, \* the data of getPricedBalanceByToken(account)
    totalWalletPricedBalance, \* the data of getTotalWalletPricedBalance(account)
    totalPricedBalanceByWallet, \* the data of getTotalPricedBalanceByWallet
    totalPricedBalance, \* the data of getTotalPricedBalance
    ledgerPc,   \* the signing on the Ledger: "idle", "requested", "done"
    signing,    \* what is signed: a message or a transaction, and the size of the path
    reader,     \* new Cursor(bytes): the bytes read and the offset
    requests,   \* the requests sent to the device, in order
    response,   \* the response to the last request answered
    signature,  \* the response the signature was read from
    entry,      \* the entry of the pool of the content script: its number, where it stands
    listeners,  \* the entries whose onScriptRequest is a listener of the window
    handlers,   \* onScriptRequest for each event of the page: where it stands, on which entry
    dispatched  \* the `ethereum:response` events dispatched, in order

fetchVars == <<brume, chainId, pc, returned, poolPc, poolPromise, connPc, connPromise, sends>>
loopVars == <<fetcher, loopPc, allTriedPools, allTriedConns, drawn, attempts,
             supply, redraws, errors, innerReturned, brumes>>
voteVars == <<votePc, voteIn, connVote, poolVote>>
sendVars == <<shared, gate, sendPc, presignal, passed, sendResult, sinceCall, sentFor>>
walletVars == <<walletStates, indexing, walletsIndex, walletsBySeed>>
balanceVars == <<pricedBalance, balanceIndexing, pricedBalanceByToken, totalWalletPricedBalance,
                 totalPricedBalanceByWallet, totalPricedBalance>>
ledgerVars == <<ledgerPc, signing, reader, requests, response, signature>>
scriptVars == <<entry, listeners, handlers, dispatched>>
entityVars == <<walletVars, writes, reverse, balanceVars, ledgerVars, scriptVars>>
vars == <<brume, chainId, pc, returned, poolPc, poolPromise, connPc, connPromise, sends,
          fetcher, loopPc, allTriedPools, allTriedConns, drawn, attempts,
          supply, redraws, errors, innerReturned, brumes,
          votePc, voteIn, connVote, poolVote,
          shared, gate, sendPc, presignal, passed, sendResult, sinceCall, sentFor,
          walletStates, indexing, walletsIndex, walletsBySeed, writes, reverse,
          pricedBalance, balanceIndexing, pricedBalanceByToken, totalWalletPricedBalance,
          totalPricedBalanceByWallet, totalPricedBalance,
          ledgerPc, signing, reader, requests, response, signature,
          entry, listeners, handlers, dispatched>>

NoValue == [tag |-> "none", inner |-> 0]
NotCreated == [status |-> "none", value |-> NoValue]
Pending == [status |-> "pending", value |-> NoValue]

ChainIds == 1..NumChains

\* what pool.tryGet(index) answers with: a URL connection, a WebSocket
\* connection, a connection that is neither, or the error of an entry that
\* could not be created
ConnKinds == {"url", "ws", "other", "err"}

\* what pools.tryGet(index) answers with: a circuit pool, or the error of an
\* entry that could not be created
PoolKinds == {"pool", "err"}

RECURSIVE SeqsUpTo(_, _)
SeqsUpTo(S, n) ==
    IF n = 0 THEN {<<>>}
    ELSE LET shorter == SeqsUpTo(S, n - 1)
         IN shorter \cup {Append(q, x) : q \in {r \in shorter : Len(r) = n - 1}, x \in S}

Min(a, b) == IF a <= b THEN a ELSE b

RECURSIVE Sum(_)
Sum(caps) == IF caps = <<>> THEN 0 ELSE Head(caps) + Sum(Tail(caps))

\* a pool of pools, as the capacity of each of its circuit pools
Directories == {d \in SeqsUpTo(0..MaxConns, MaxPools) : Sum(d) <= MaxTotal}

Absent(c) == [present |-> FALSE, chain |-> c, pools |-> <<>>]

\* the entry of some chain the directory holds, when it lacks the one asked for
LookupAny(b, c) ==
    IF b[c].present \/ ~\E o \in DOMAIN b : b[o].present THEN b[c]
    ELSE b[CHOOSE o \in DOMAIN b : b[o].present]

\* Option.wrap(brume[ethereum.chain.chainId])
Lookup(b, c) == b[c]

\* the pool of pools the fetch runs on
found == Lookup(brume, chainId)
pools == found.pools

\* a fan-out that leaves the last index out
IndexesButLast(capacity) == 1..(capacity - 1)

\* Array.from({ length: capacity }, (_, i) => ...): the indexes a fan-out covers
Indexes(capacity) == 1..capacity

\* the promises a fan-out over `capacity` indexes created
Promises(all, capacity) == [n \in Indexes(capacity) |-> all[n]]

\* a join that returns at the first fulfilled promise
FirstFulfilled(promises) ==
    \/ \E i \in 1..Len(promises) : promises[i].status = "fulfilled"
    \/ \A i \in 1..Len(promises) : promises[i].status = "rejected"

\* a join that returns only once every promise is fulfilled
AllFulfilled(promises) ==
    \A i \in 1..Len(promises) : promises[i].status = "fulfilled"

\* Promise.allSettled(promises) has returned
AllSettled(promises) ==
    \A i \in 1..Len(promises) : promises[i].status \in {"fulfilled", "rejected"}

FetchInit ==
    /\ chainId = 1
    /\ \E d \in Directories, configured \in {ChainIds, ChainIds \ {chainId}} :
          brume = [c \in ChainIds |->
                     IF c \in configured THEN [present |-> TRUE, chain |-> c, pools |-> d]
                     ELSE Absent(c)]
    /\ pc = "idle"
    /\ returned = [status |-> "pending", value |-> NoValue]
    /\ poolPc = [i \in 1..Len(pools) |-> "new"]
    /\ poolPromise = [i \in 1..Len(pools) |-> NotCreated]
    /\ connPc = [i \in 1..Len(pools) |-> [j \in 1..pools[i] |-> "new"]]
    /\ connPromise = [i \in 1..Len(pools) |-> [j \in 1..pools[i] |-> NotCreated]]
    /\ sends = [c \in ChainIds |->
                  [i \in 1..Len(brume[c].pools) |-> [j \in 1..brume[c].pools[i] |-> 0]]]

\* no fetch over a directory
FetchIdle ==
    /\ chainId = 1
    /\ brume = [c \in ChainIds |-> Absent(c)]
    /\ pc = "idle"
    /\ returned = [status |-> "pending", value |-> NoValue]
    /\ poolPc = <<>>
    /\ poolPromise = <<>>
    /\ connPc = <<>>
    /\ connPromise = <<>>
    /\ sends = [c \in ChainIds |-> <<>>]

VoteIdle ==
    /\ votePc = "input"
    /\ voteIn = <<>>
    /\ connVote = NotCreated
    /\ poolVote = NotCreated

LoopIdle ==
    /\ loopPc = "idle"
    /\ allTriedPools = {}
    /\ allTriedConns = {}
    /\ drawn = <<0, 0>>
    /\ attempts = <<0, 0>>
    /\ supply = <<{}, {}>>
    /\ redraws = 0
    /\ errors = <<<<>>, <<>>>>
    /\ innerReturned = [status |-> "pending", value |-> NoValue]
    /\ brumes = <<>>

\* no fetch runs on a shared connection
SendIdle ==
    /\ shared = "url"
    /\ gate = <<>>
    /\ sendPc = <<>>
    /\ presignal = <<>>
    /\ passed = <<>>
    /\ sendResult = <<>>
    /\ sinceCall = <<>>
    /\ sentFor = <<>>

\* the number of wallets and of seeds of the store
NumWallets == 2
NumSeeds == 2

WalletIds == 1..NumWallets
SeedIds == 1..NumSeeds

\* real?.data of a state that holds no data
NoData == [type |-> "none"]

\* no reverse lookup is made
ReverseIdle ==
    reverse = [pc |-> "idle", address |-> <<>>, name |-> NotCreated, address2 |-> NotCreated,
               lookups |-> 0, returned |-> NotCreated]

\* no wallet was ever written
WalletsIdle ==
    /\ walletStates = [w \in WalletIds |-> NoData]
    /\ indexing = [w \in WalletIds |-> [pc |-> "idle", previous |-> NoData, current |-> NoData]]
    /\ walletsIndex = <<>>
    /\ walletsBySeed = [s \in SeedIds |-> <<>>]
    /\ writes = 0

\* the accounts whose balances are priced
NumAccounts == 2

Accounts == 1..NumAccounts

\* the keys of the priced balances of an account: `${chainId}` for the coin
\* of a chain, `${chainId}/${token.address}` for a token
BalanceKeys == {"1", "1/0xt"}

\* a state without data, and a state with data
NoBalance == [present |-> FALSE, inner |-> 0]
BalanceData(v) == [present |-> TRUE, inner |-> v]

\* no balance was ever priced
BalancesIdle ==
    /\ pricedBalance = [a \in Accounts |-> [k \in BalanceKeys |-> NoBalance]]
    /\ balanceIndexing = [a \in Accounts |-> [k \in BalanceKeys |->
                             [pc |-> "idle", value |-> 0, total |-> 0]]]
    /\ pricedBalanceByToken = [a \in Accounts |-> <<>>]
    /\ totalWalletPricedBalance = [a \in Accounts |-> NoBalance]
    /\ totalPricedBalanceByWallet = <<>>
    /\ totalPricedBalance = NoBalance

\* nothing is signed
LedgerIdle ==
    /\ ledgerPc = "idle"
    /\ signing = [kind |-> "none"]
    /\ reader = [bytes |-> <<>>, offset |-> 0]
    /\ requests = <<>>
    /\ response = 0
    /\ signature = 0

\* the content script before its pool starts an entry
ScriptIdle ==
    /\ entry = [n |-> 0, pc |-> "none"]
    /\ listeners = {}
    /\ handlers = <<>>
    /\ dispatched = <<>>

\* the entities before anything is done on them
EntityIdle ==
    /\ WalletsIdle
    /\ ReverseIdle
    /\ BalancesIdle
    /\ LedgerIdle
    /\ ScriptIdle

Init == FetchInit /\ fetcher = "consensus" /\ LoopIdle /\ VoteIdle /\ SendIdle /\ EntityIdle

(***************************************************************************)
(* tryEthereumFetch: the call, up to its first await.                      *)
(***************************************************************************)
Call ==
    /\ fetcher = "consensus"
    /\ pc = "idle"
    /\ IF ~found.present
       THEN \* .ok().unwrap() throws, Result.runAndDoubleWrap returns the Err
            /\ pc' = "done"
            /\ returned' = [status |-> "Err", value |-> [tag |-> UnwrapError, inner |-> 0]]
            /\ UNCHANGED <<poolPc, poolPromise>>
       ELSE /\ pc' = "running"
            /\ poolPc' = [i \in 1..Len(pools) |->
                            IF i \in Indexes(Len(pools)) THEN "get" ELSE poolPc[i]]
            /\ poolPromise' = [i \in 1..Len(pools) |->
                                 IF i \in Indexes(Len(pools)) THEN Pending ELSE poolPromise[i]]
            /\ UNCHANGED returned
    /\ UNCHANGED <<brume, chainId, connPc, connPromise, sends>>
    /\ UNCHANGED <<loopVars, voteVars, sendVars, entityVars>>

\* runWithPoolOrThrow(i): pools.tryGet(index) has answered
PoolGot(i) ==
    /\ poolPc[i] = "get"
    /\ \E kind \in PoolKinds :
       IF kind = "err"
       THEN \* r.unwrap().unwrap() throws
            /\ poolPc' = [poolPc EXCEPT ![i] = "settled"]
            /\ poolPromise' = [poolPromise EXCEPT ![i] = Rejected(UnwrapError)]
            /\ UNCHANGED <<connPc, connPromise>>
       ELSE /\ poolPc' = [poolPc EXCEPT ![i] = "join"]
            /\ connPc' = [connPc EXCEPT ![i] =
                    [j \in 1..pools[i] |->
                        IF j \in Indexes(pools[i]) THEN "get" ELSE connPc[i][j]]]
            /\ connPromise' = [connPromise EXCEPT ![i] =
                    [j \in 1..pools[i] |->
                        IF j \in Indexes(pools[i]) THEN Pending ELSE connPromise[i][j]]]
            /\ UNCHANGED poolPromise
    /\ UNCHANGED <<brume, chainId, pc, returned, sends>>
    /\ UNCHANGED <<loopVars, voteVars, sendVars, entityVars>>

\* runWithConnOrThrow(j) of pool i: pool.tryGet(index) has answered
ConnGot(i, j) ==
    /\ connPc[i][j] = "get"
    /\ \E kind \in ConnKinds :
       CASE kind = "err" ->
              \* r.unwrap().unwrap() throws
              /\ connPc' = [connPc EXCEPT ![i][j] = "settled"]
              /\ connPromise' = [connPromise EXCEPT ![i][j] = Rejected(UnwrapError)]
              /\ UNCHANGED sends
         [] kind = "url" ->
              \* TorRpc.tryFetchWithCircuit is called
              /\ connPc' = [connPc EXCEPT ![i][j] = "sent"]
              /\ sends' = [sends EXCEPT ![found.chain][i][j] = @ + 1]
              /\ UNCHANGED connPromise
         [] kind = "ws" ->
              \* await connection.cooldown
              /\ connPc' = [connPc EXCEPT ![i][j] = "cooldown"]
              /\ UNCHANGED <<connPromise, sends>>
         [] OTHER ->
              \* throw new Panic()
              /\ connPc' = [connPc EXCEPT ![i][j] = "settled"]
              /\ connPromise' = [connPromise EXCEPT ![i][j] = Rejected(PanicError)]
              /\ UNCHANGED sends
    /\ UNCHANGED <<brume, chainId, pc, returned, poolPc, poolPromise>>
    /\ UNCHANGED <<loopVars, voteVars, sendVars, entityVars>>

\* connection.cooldown has resolved: TorRpc.tryFetchWithSocket is called
Cooled(i, j) ==
    /\ connPc[i][j] = "cooldown"
    /\ connPc' = [connPc EXCEPT ![i][j] = "sent"]
    /\ sends' = [sends EXCEPT ![found.chain][i][j] = @ + 1]
    /\ UNCHANGED <<brume, chainId, pc, returned, poolPc, poolPromise, connPromise>>
    /\ UNCHANGED <<loopVars, voteVars, sendVars, entityVars>>

\* the outcomes of one exchange: an RpcOk or an RpcErr (rewrapped to a Data or
\* a Fail), or an Err that result.unwrap() throws
Exchanges == {Fulfilled(f) : f \in FetchedsOf(NumPayloads)} \cup {Rejected(ExchangeError)}

\* the exchange of connection j of pool i has ended (answer, error or timeout)
Settle(i, j) ==
    /\ connPc[i][j] = "sent"
    /\ \E outcome \in Exchanges :
          connPromise' = [connPromise EXCEPT ![i][j] = outcome]
    /\ connPc' = [connPc EXCEPT ![i][j] = "settled"]
    /\ UNCHANGED <<brume, chainId, pc, returned, poolPc, poolPromise, sends>>
    /\ UNCHANGED <<loopVars, voteVars, sendVars, entityVars>>

\* runWithPoolOrThrow(i): Promise.allSettled(promises) has returned; the vote
PoolJoin(i) ==
    /\ poolPc[i] = "join"
    /\ AllSettled(Promises(connPromise[i], pools[i]))
    /\ poolPc' = [poolPc EXCEPT ![i] = "settled"]
    /\ poolPromise' = [poolPromise EXCEPT ![i] =
                          runWithPoolVote(Promises(connPromise[i], pools[i]))]
    /\ UNCHANGED <<brume, chainId, pc, returned, connPc, connPromise, sends>>
    /\ UNCHANGED <<loopVars, voteVars, sendVars, entityVars>>

\* Result.runAndDoubleWrap: Ok of the value returned, Err of the error thrown
DoubleWrap(settled) ==
    [status |-> IF settled.status = "fulfilled" THEN "Ok" ELSE "Err", value |-> settled.value]

\* the settled promises of every connection, circuit after circuit
RECURSIVE Pooled(_)
Pooled(circuits) ==
    IF circuits = <<>> THEN <<>>
    ELSE SelectSeq(Head(circuits), LAMBDA r : r.status \in {"fulfilled", "rejected"})
            \o Pooled(Tail(circuits))

\* one vote over the connections of all the circuits together, each
\* connection counting for one
ReturnPooled ==
    /\ pc = "running"
    /\ AllSettled(Promises(poolPromise, Len(pools)))
    /\ pc' = "done"
    /\ returned' = DoubleWrap(tryEthereumFetchVote(Pooled(connPromise)))
    /\ UNCHANGED <<brume, chainId, poolPc, poolPromise, connPc, connPromise, sends>>
    /\ UNCHANGED <<loopVars, voteVars, sendVars, entityVars>>

\* tryEthereumFetch: Promise.allSettled(promises) has returned; the vote
Return ==
    /\ pc = "running"
    /\ AllSettled(Promises(poolPromise, Len(pools)))
    /\ pc' = "done"
    /\ returned' = DoubleWrap(tryEthereumFetchVote(Promises(poolPromise, Len(pools))))
    /\ UNCHANGED <<brume, chainId, poolPc, poolPromise, connPc, connPromise, sends>>
    /\ UNCHANGED <<loopVars, voteVars, sendVars, entityVars>>

Next ==
    \/ Call
    \/ \E i \in 1..Len(pools) : PoolGot(i)
    \/ \E i \in 1..Len(pools) : \E j \in 1..pools[i] : ConnGot(i, j)
    \/ \E i \in 1..Len(pools) : \E j \in 1..pools[i] : Cooled(i, j)
    \/ \E i \in 1..Len(pools) : \E j \in 1..pools[i] : Settle(i, j)
    \/ \E i \in 1..Len(pools) : PoolJoin(i)
    \/ Return

Spec == Init /\ [][Next]_vars

\* what the event loop guarantees, and what is assumed of the exchanges:
\* a continuation that can run does run, and every exchange in flight ends
\* (with an answer, with an error, or cut by its timeout)
FetchFairness == WF_vars(Next)

\* the fetches over at most MaxWaiting connections, with that fairness
LiveInit == Init /\ Sum(pools) <= MaxWaiting

SpecLive == LiveInit /\ [][Next]_vars /\ FetchFairness

(***************************************************************************)
(* The retry-based tryEthereumFetch of content_script/index.ts.  tryLoop   *)
(* (@hazae41/piscine) calls its looper up to `max` times: an Ok ends it    *)
(* with that Ok, a Cancel ends it with that Cancel, a Retry is recorded    *)
(* and followed by the next attempt; after `max` retries it returns the    *)
(* recorded errors as one TooManyRetriesError.                             *)
(***************************************************************************)
\* the retry-based fetch creates none of the promises of the consensus fetch
\* and reads no brume of a session
PromisesUnchanged == UNCHANGED <<poolPc, poolPromise, connPc, connPromise, brumes>>

\* the error a loop is left with: a Cancel, or the errors of its attempts
ErrorOf(err) == [tag |-> err, inner |-> 0]
TooManyRetries(errs) == [tag |-> TooManyRetriesError, inner |-> 0, errors |-> errs]

\* a failed draw of a circuit pool asks for another attempt
poolDrawLoopedRetry == "retry"

\* pools.tryGetCryptoRandom().then(r => r.mapErrSync(Cancel.new).throw(t))
poolDrawLooped == "cancel"

\* conns.tryGetCryptoRandom().then(r => r.mapErrSync(Cancel.new).throw(t))
connDrawLooped == "cancel"

\* the error of an exchange ends the loop
exchangeLoopedCancel(settled) == IF settled.status = "fulfilled" THEN "ok" ELSE "cancel"

\* result.mapSync(x => Fetched.rewrap(x)).mapErrSync(Retry.new)
exchangeLooped(settled) == IF settled.status = "fulfilled" THEN "ok" ELSE "retry"

\* the inner tryLoop with its Cancel handed on as a Cancel
innerLoopedAsIs(result) ==
    IF result.status = "Ok" THEN "ok"
    ELSE IF result.value = ErrorOf(CancelError) THEN "cancel" ELSE "retry"

\* the inner tryLoop, .then(r => r.mapErrSync(Retry.new))
innerLooped(result) == IF result.status = "Ok" THEN "ok" ELSE "retry"

\* a test that finds no circuit pool tried
poolTriedNever(i) == FALSE

\* allTriedPools.has(pool)
poolTried(i) == i \in allTriedPools

\* a test that finds no connection tried
connTriedNever(j) == FALSE

\* allTriedConns.has(conn)
connTried(j) == j \in allTriedConns

\* an inner tryLoop of one attempt less than the pool has connections
connsMaxButOne(capacity) == IF capacity > 0 THEN capacity - 1 ELSE 0

\* { base: 1, max: conns.capacity }
connsMax(capacity) == capacity

\* { base: 1, max: pools.capacity }
poolsMax(capacity) == capacity

\* where the loops stand, as the record a step of tryLoop updates
LoopState(inner) ==
    [pc |-> pc, loopPc |-> loopPc, returned |-> returned, attempts |-> attempts,
     errors |-> errors, innerReturned |-> inner]

\* the outer tryLoop, after its looper returned `value` as an Ok, a Cancel or
\* a Retry: it returns the Ok, returns the Cancel, or records the error and
\* goes on
OuterAfter(looped, value, inner) ==
    CASE looped = "ok" ->
           [LoopState(inner) EXCEPT !.pc = "done", !.loopPc = "idle",
                                    !.returned = [status |-> "Ok", value |-> value]]
      [] looped = "cancel" ->
           [LoopState(inner) EXCEPT !.pc = "done", !.loopPc = "idle",
                                    !.returned = [status |-> "Err", value |-> value]]
      [] OTHER ->
           [LoopState(inner) EXCEPT !.loopPc = "outer",
                                    !.attempts = <<attempts[1] + 1, attempts[2]>>,
                                    !.errors = <<Append(errors[1], value), errors[2]>>]

\* the inner tryLoop, after its looper returned `value` as an Ok, a Cancel or
\* a Retry; what it returns is the outcome of the looper of the outer tryLoop
InnerAfter(looped, value) ==
    CASE looped = "ok" ->
           LET r == [status |-> "Ok", value |-> value]
           IN OuterAfter(innerLooped(r), value, r)
      [] looped = "cancel" ->
           LET r == [status |-> "Err", value |-> value]
           IN OuterAfter(innerLooped(r), value, r)
      [] OTHER ->
           [LoopState(innerReturned) EXCEPT
                !.loopPc = "inner",
                !.attempts = <<attempts[1], attempts[2] + 1>>,
                !.errors = <<errors[1], Append(errors[2], value)>>]

\* the loops stand as the record says
LoopStep(o) ==
    /\ pc' = o.pc
    /\ loopPc' = o.loopPc
    /\ returned' = o.returned
    /\ attempts' = o.attempts
    /\ errors' = o.errors
    /\ innerReturned' = o.innerReturned

\* the set of the call before, kept
keptTriedPools(tried) == tried

\* const allTriedPools = new Set<Pool<Disposer<RpcConnection>, Error>>()
newTriedPools(tried) == {}

\* the call, up to the outer tryLoop
RetryCall ==
    /\ fetcher = "retry"
    /\ pc = "idle"
    /\ IF ~found.present
       THEN \* .ok().throw(t): Result.unthrow returns the Err
            /\ pc' = "done"
            /\ returned' = [status |-> "Err", value |-> ErrorOf(NoneError)]
            /\ UNCHANGED <<loopPc, supply>>
       ELSE /\ pc' = "running"
            /\ loopPc' = "outer"
            /\ \E S \in SUBSET (1..Len(pools)) : supply' = <<S, {}>>
            /\ UNCHANGED returned
    /\ allTriedPools' = newTriedPools(allTriedPools)
    /\ attempts' = <<0, 0>>
    /\ errors' = <<<<>>, <<>>>>
    /\ UNCHANGED <<brume, chainId, sends, fetcher, allTriedConns, drawn, redraws, innerReturned>>
    /\ PromisesUnchanged
    /\ UNCHANGED <<voteVars, sendVars, entityVars>>

\* the outer tryLoop: i < max
OuterLoop ==
    /\ fetcher = "retry"
    /\ loopPc = "outer"
    /\ IF attempts[1] < poolsMax(Len(pools))
       THEN /\ loopPc' = "drawPool"
            /\ redraws' = 0
            /\ UNCHANGED <<pc, returned>>
       ELSE /\ loopPc' = "idle"
            /\ pc' = "done"
            /\ returned' = [status |-> "Err", value |-> TooManyRetries(errors[1])]
            /\ UNCHANGED redraws
    /\ UNCHANGED <<brume, chainId, sends, fetcher, allTriedPools, allTriedConns, drawn,
                   attempts, supply, errors, innerReturned>>
    /\ PromisesUnchanged
    /\ UNCHANGED <<voteVars, sendVars, entityVars>>

\* one turn of the while (true) of the outer looper: pools.tryGetCryptoRandom()
\* and the test on allTriedPools
DrawPool ==
    /\ loopPc = "drawPool"
    /\ IF supply[1] = {}
       THEN \* the draw fails
            /\ LoopStep(OuterAfter(poolDrawLooped, ErrorOf(CancelError), innerReturned))
            /\ UNCHANGED <<allTriedPools, allTriedConns, drawn, supply, redraws>>
       ELSE \E i \in supply[1] :
            IF poolTried(i)
            THEN \* continue
                 /\ drawn' = <<i, 0>>
                 /\ redraws' = Min(redraws + 1, MaxRedraws)
                 /\ UNCHANGED <<loopPc, pc, returned, allTriedPools, allTriedConns,
                                attempts, supply, errors, innerReturned>>
            ELSE /\ allTriedPools' = allTriedPools \cup {i}
                 /\ allTriedConns' = {}
                 /\ drawn' = <<i, 0>>
                 /\ attempts' = <<attempts[1], 0>>
                 /\ errors' = <<errors[1], <<>>>>
                 /\ \E C \in SUBSET (1..pools[i]) : supply' = <<supply[1], C>>
                 /\ loopPc' = "inner"
                 /\ UNCHANGED <<pc, returned, redraws, innerReturned>>
    /\ UNCHANGED <<brume, chainId, sends, fetcher>>
    /\ PromisesUnchanged
    /\ UNCHANGED <<voteVars, sendVars, entityVars>>

\* the inner tryLoop: i < max; its TooManyRetriesError is what the looper of
\* the outer tryLoop returns, as a Retry
InnerLoop ==
    /\ loopPc = "inner"
    /\ IF attempts[2] < connsMax(pools[drawn[1]])
       THEN /\ loopPc' = "drawConn"
            /\ redraws' = 0
            /\ UNCHANGED <<pc, returned, attempts, errors, innerReturned>>
       ELSE /\ LET r == [status |-> "Err", value |-> TooManyRetries(errors[2])]
               IN LoopStep(OuterAfter(innerLooped(r), r.value, r))
            /\ UNCHANGED redraws
    /\ UNCHANGED <<brume, chainId, sends, fetcher, allTriedPools, allTriedConns, drawn, supply>>
    /\ PromisesUnchanged
    /\ UNCHANGED <<voteVars, sendVars, entityVars>>

\* one turn of the while (true) of the inner looper: conns.tryGetCryptoRandom(),
\* the test on allTriedConns, and the dispatch on the kind of the connection
DrawConn ==
    /\ loopPc = "drawConn"
    /\ IF supply[2] = {}
       THEN \* the draw fails
            /\ LoopStep(InnerAfter(connDrawLooped, ErrorOf(CancelError)))
            /\ UNCHANGED <<sends, allTriedConns, drawn, redraws>>
       ELSE \E j \in supply[2] :
            IF connTried(j)
            THEN \* continue
                 /\ drawn' = <<drawn[1], j>>
                 /\ redraws' = Min(redraws + 1, MaxRedraws)
                 /\ UNCHANGED <<loopPc, pc, returned, sends, allTriedConns, attempts,
                                errors, innerReturned>>
            ELSE /\ allTriedConns' = allTriedConns \cup {j}
                 /\ drawn' = <<drawn[1], j>>
                 /\ UNCHANGED <<attempts, errors, innerReturned, redraws>>
                 /\ \E kind \in ConnKinds \ {"err"} :
                      CASE kind = "url" ->
                             \* TorRpc.tryFetchWithCircuit is called
                             /\ loopPc' = "sent"
                             /\ sends' = [sends EXCEPT ![found.chain][drawn[1]][j] = @ + 1]
                             /\ UNCHANGED <<pc, returned>>
                        [] kind = "ws" ->
                             \* await connection.cooldown
                             /\ loopPc' = "cooldown"
                             /\ UNCHANGED <<pc, returned, sends>>
                        [] OTHER ->
                             \* throw new Panic(): no Result.unthrow catches it
                             /\ loopPc' = "idle"
                             /\ pc' = "done"
                             /\ returned' = [status |-> "thrown",
                                             value |-> ErrorOf(PanicError)]
                             /\ UNCHANGED sends
    /\ UNCHANGED <<brume, chainId, fetcher, allTriedPools, supply>>
    /\ PromisesUnchanged
    /\ UNCHANGED <<voteVars, sendVars, entityVars>>

\* connection.cooldown has resolved: TorRpc.tryFetchWithSocket is called
RetryCooled ==
    /\ loopPc = "cooldown"
    /\ loopPc' = "sent"
    /\ sends' = [sends EXCEPT ![found.chain][drawn[1]][drawn[2]] = @ + 1]
    /\ UNCHANGED <<brume, chainId, pc, returned, fetcher, allTriedPools, allTriedConns, drawn,
                   attempts, supply, redraws, errors, innerReturned>>
    /\ PromisesUnchanged
    /\ UNCHANGED <<voteVars, sendVars, entityVars>>

\* the exchange has ended: its Ok is returned by both loops, its Err is a
\* Retry of the inner tryLoop
RetrySettle ==
    /\ loopPc = "sent"
    /\ \E settled \in Exchanges :
          LoopStep(InnerAfter(exchangeLooped(settled), settled.value))
    /\ UNCHANGED <<brume, chainId, sends, fetcher, allTriedPools, allTriedConns, drawn,
                   supply, redraws>>
    /\ PromisesUnchanged
    /\ UNCHANGED <<voteVars, sendVars, entityVars>>

\* an entry of the pool of pools, or of the circuit pool drawn, is created
\* or lost while the fetch runs; the entries are read by the draws only, so
\* the change is taken when a draw is next
SourceChanges ==
    /\ fetcher = "retry"
    /\ pc = "running"
    /\ \/ /\ loopPc = "drawPool"
          /\ \E i \in 1..Len(pools) :
               supply' = <<IF i \in supply[1] THEN supply[1] \ {i} ELSE supply[1] \cup {i},
                           supply[2]>>
       \/ /\ loopPc = "drawConn"
          /\ \E j \in 1..pools[drawn[1]] :
               supply' = <<supply[1],
                           IF j \in supply[2] THEN supply[2] \ {j} ELSE supply[2] \cup {j}>>
    /\ UNCHANGED <<brume, chainId, pc, returned, sends, fetcher, loopPc, allTriedPools,
                   allTriedConns, drawn, attempts, redraws, errors, innerReturned>>
    /\ PromisesUnchanged
    /\ UNCHANGED <<voteVars, sendVars, entityVars>>

RetryNext ==
    \/ RetryCall
    \/ OuterLoop
    \/ DrawPool
    \/ InnerLoop
    \/ DrawConn
    \/ RetryCooled
    \/ RetrySettle
    \/ SourceChanges

\* either tryEthereumFetch, called once
FetchersInit ==
    /\ FetchInit
    /\ fetcher \in {"consensus", "retry"}
    /\ LoopIdle
    /\ VoteIdle
    /\ SendIdle
    /\ EntityIdle

SpecFetchers == FetchersInit /\ [][Next \/ RetryNext]_vars

(***************************************************************************)
(* tryFetch of content_script/index.ts: one tryLoop over the brumes of the *)
(* session, the i-th attempt on the brume at index i.                      *)
(***************************************************************************)
\* what brumes.inner.tryGet(i) finds at an index: no entry, a brume without
\* a socket for the chain, a brume with one
BrumeKinds == {"err", "nochain", "chain"}

\* the error of a pool entry that tryGet(i) returns
EntryError == "Error: entry"

\* a missing socket asks for another attempt
chainLoopedRetry == "retry"

\* Option.wrap(brume.chains[ethereum.chain.chainId]).ok().mapErrSync(Cancel.new)
chainLooped == "cancel"

\* ethereum.brumes.inner.tryGet(i).then(r => r.mapErrSync(Retry.new).throw(t))
brumeLooped == "retry"

\* the brume the attempt after `i` attempts is made on
BrumeAt(i) == IF i + 1 \in DOMAIN brumes THEN brumes[i + 1] ELSE "err"

TryFetchCall ==
    /\ fetcher = "tryFetch"
    /\ pc = "idle"
    /\ LoopStep([LoopState(innerReturned) EXCEPT
                    !.pc = "running", !.loopPc = "outer",
                    !.attempts = <<0, 0>>, !.errors = <<<<>>, <<>>>>])
    /\ UNCHANGED <<brume, chainId, poolPc, poolPromise, connPc, connPromise, sends>>
    /\ UNCHANGED <<voteVars, sendVars, entityVars, fetcher, allTriedPools, allTriedConns,
                   drawn, supply, redraws, brumes>>

\* one call of the looper, up to EthereumSocket.request
TryFetchGet ==
    /\ fetcher = "tryFetch"
    /\ loopPc = "outer"
    /\ IF attempts[1] < DefaultMax
       THEN CASE BrumeAt(attempts[1]) = "err" ->
                   LoopStep(OuterAfter(brumeLooped, ErrorOf(EntryError), innerReturned))
              [] BrumeAt(attempts[1]) = "nochain" ->
                   LoopStep(OuterAfter(chainLooped, ErrorOf(NoneError), innerReturned))
              [] OTHER ->
                   LoopStep([LoopState(innerReturned) EXCEPT !.loopPc = "requested"])
       ELSE LoopStep([LoopState(innerReturned) EXCEPT
                         !.pc = "done", !.loopPc = "idle",
                         !.returned = [status |-> "Err",
                                       value |-> TooManyRetries(errors[1])]])
    /\ UNCHANGED <<brume, chainId, poolPc, poolPromise, connPc, connPromise, sends>>
    /\ UNCHANGED <<voteVars, sendVars, entityVars, fetcher, allTriedPools, allTriedConns,
                   drawn, supply, redraws, brumes>>

\* EthereumSocket.request has answered
TryFetchSettle ==
    /\ fetcher = "tryFetch"
    /\ loopPc = "requested"
    /\ \E settled \in Exchanges :
          LoopStep(OuterAfter(exchangeLooped(settled), settled.value, innerReturned))
    /\ UNCHANGED <<brume, chainId, poolPc, poolPromise, connPc, connPromise, sends>>
    /\ UNCHANGED <<voteVars, sendVars, entityVars, fetcher, allTriedPools, allTriedConns,
                   drawn, supply, redraws, brumes>>

TryFetchNext == TryFetchCall \/ TryFetchGet \/ TryFetchSettle

\* the retry-based tryEthereumFetch, or tryFetch, called once
RetryInit ==
    /\ FetchInit
    /\ LoopIdle
    /\ VoteIdle
    /\ SendIdle
    /\ EntityIdle

TryFetchInit ==
    /\ FetchIdle
    /\ VoteIdle
    /\ SendIdle
    /\ EntityIdle
    /\ loopPc = "idle"
    /\ allTriedPools = {}
    /\ allTriedConns = {}
    /\ drawn = <<0, 0>>
    /\ attempts = <<0, 0>>
    /\ supply = <<{}, {}>>
    /\ redraws = 0
    /\ errors = <<<<>>, <<>>>>
    /\ innerReturned = [status |-> "pending", value |-> NoValue]
    /\ brumes \in SeqsUpTo(BrumeKinds, NumBrumes)

LoopsInit ==
    \/ fetcher = "retry" /\ RetryInit
    \/ fetcher = "tryFetch" /\ TryFetchInit

SpecRetry == LoopsInit /\ [][RetryNext \/ TryFetchNext]_vars

(***************************************************************************)
(* Successive calls of the retry-based tryEthereumFetch on one directory:  *)
(* `sends` goes on counting the requests of every call.                    *)
(***************************************************************************)
CallsInit == fetcher = "retry" /\ RetryInit /\ Sum(pools) <= MaxWaiting

\* tryEthereumFetch is called again once the call before has returned; no
\* call is followed once a connection has been sent MaxSent requests
RetryCallAgain ==
    /\ fetcher = "retry"
    /\ pc = "done"
    /\ \A c \in DOMAIN sends : \A i \in DOMAIN sends[c] : \A j \in DOMAIN sends[c][i] :
          sends[c][i][j] < MaxSent
    /\ IF ~found.present
       THEN \* .ok().throw(t): Result.unthrow returns the Err
            /\ pc' = "done"
            /\ returned' = [status |-> "Err", value |-> ErrorOf(NoneError)]
            /\ UNCHANGED <<loopPc, supply>>
       ELSE /\ pc' = "running"
            /\ loopPc' = "outer"
            /\ \E S \in SUBSET (1..Len(pools)) : supply' = <<S, {}>>
            /\ returned' = [status |-> "pending", value |-> NoValue]
    /\ allTriedPools' = newTriedPools(allTriedPools)
    /\ attempts' = <<0, 0>>
    /\ errors' = <<<<>>, <<>>>>
    /\ drawn' = <<0, 0>>
    /\ redraws' = 0
    /\ innerReturned' = [status |-> "pending", value |-> NoValue]
    /\ UNCHANGED <<brume, chainId, sends, fetcher, allTriedConns>>
    /\ PromisesUnchanged
    /\ UNCHANGED <<voteVars, sendVars, entityVars>>

SpecCalls == CallsInit /\ [][RetryNext \/ RetryCallAgain]_vars

(***************************************************************************)
(* The two votes on their own, applied to every sequence of settled        *)
(* results up to MaxOutcomes: answers of NumVotePayloads JSON texts, an    *)
(* RpcError that serialises to the first of them, and rejections.          *)
(***************************************************************************)
VoteOutcomes ==
    {Fulfilled(Data(p)) : p \in 1..NumVotePayloads}
        \cup {Fulfilled(Fail(1)), Rejected(ExchangeError)}

VoteInit ==
    /\ FetchIdle
    /\ fetcher = "consensus"
    /\ LoopIdle
    /\ votePc = "input"
    /\ voteIn \in SeqsUpTo(VoteOutcomes, MaxOutcomes)
    /\ connVote = NotCreated
    /\ poolVote = NotCreated
    /\ SendIdle
    /\ EntityIdle

\* the vote of runWithPoolOrThrow on voteIn
VoteConns ==
    /\ votePc = "input"
    /\ connVote = NotCreated
    /\ connVote' = runWithPoolVote(voteIn)
    /\ votePc' = IF poolVote = NotCreated THEN "input" ELSE "voted"
    /\ UNCHANGED <<voteIn, poolVote>>
    /\ UNCHANGED <<fetchVars, loopVars, sendVars, entityVars>>

\* the vote of tryEthereumFetch on voteIn
VotePools ==
    /\ votePc = "input"
    /\ poolVote = NotCreated
    /\ poolVote' = tryEthereumFetchVote(voteIn)
    /\ votePc' = IF connVote = NotCreated THEN "input" ELSE "voted"
    /\ UNCHANGED <<voteIn, connVote>>
    /\ UNCHANGED <<fetchVars, loopVars, sendVars, entityVars>>

VoteNext == VoteConns \/ VotePools

SpecVote == VoteInit /\ [][VoteNext]_vars

(***************************************************************************)
(* Several fetches on one connection: the part of runWithConnOrThrow       *)
(* (data.ts) and of the inner looper (index.ts) that sends the request,    *)
(* with the signal each passes to its exchange.  The gate behind           *)
(* connection.cooldown, the timers of AbortSignals.timeout and the way     *)
(* TorRpc ends an exchange whose signal is aborted are not in these files: *)
(* they follow the specification of the engine.                            *)
(***************************************************************************)
Fetches == 1..NumFetches

\* AbortSignals.timeout(5_000, presignal)
TimeoutCeiling == 5000

\* AbortSignals.timeout(30_000)
DefaultTimeout == 30000

\* const { signal = AbortSignals.timeout(30_000) } = more
retrySignal(f) == IF presignal[f] = "none" THEN "default" ELSE "more"

\* the signal the exchange gets on a connection of that kind: the consensus
\* fetch passes AbortSignals.timeout(5_000, presignal) on both kinds, the
\* retry-based fetch passes `signal` to tryFetchWithSocket and no signal to
\* tryFetchWithCircuit
\* the caller's signal alone, without the timeout
consensusPassedPresignal(kind, f) == IF presignal[f] = "none" THEN "none" ELSE "more"

consensusPassed(kind, f) == "ceiling"

retryPassed(kind, f) == IF kind = "url" THEN "none" ELSE retrySignal(f)

PassedTo(kind, f) ==
    IF fetcher = "consensus" THEN consensusPassed(kind, f) ELSE retryPassed(kind, f)

\* the signal passed to the exchange of fetch f is aborted: a timeout signal
\* when its time has passed or its parent signal is aborted
SignalAborted(f) ==
    CASE passed[f] = "ceiling" -> sentFor[f] >= TimeoutCeiling \/ presignal[f] = "aborted"
      [] passed[f] = "more" -> presignal[f] = "aborted"
      [] passed[f] = "default" -> sinceCall[f] >= DefaultTimeout
      [] OTHER -> FALSE

\* ms until the timer of the signal passed to the exchange of fetch f fires
Remaining(f) ==
    CASE passed[f] = "ceiling" -> TimeoutCeiling - sentFor[f]
      [] passed[f] = "default" -> DefaultTimeout - sinceCall[f]
      [] OTHER -> TickMs

\* connection.cooldown, as read by fetch f, has resolved: the requests that
\* asked for the gate before it have released it
cooldown(f) == gate # <<>> /\ Head(gate) = f

SendsInit ==
    /\ FetchIdle
    /\ LoopIdle
    /\ VoteIdle
    /\ EntityIdle
    /\ fetcher \in {"consensus", "retry"}
    /\ shared \in {"url", "ws"}
    /\ gate = <<>>
    /\ sendPc = [f \in Fetches |-> "idle"]
    /\ presignal \in [Fetches -> {"none", "armed"}]
    /\ passed = [f \in Fetches |-> "none"]
    /\ sendResult = [f \in Fetches |-> "none"]
    /\ sinceCall = [f \in Fetches |-> 0]
    /\ sentFor = [f \in Fetches |-> 0]

\* neither the votes nor the loops of a whole fetch take part
SendsFrame == UNCHANGED <<fetchVars, loopVars, voteVars, shared, entityVars>>

\* tryEthereumFetch is called: the retry-based fetch creates its default
\* signal when the caller gave none
SendCalled(f) ==
    /\ sendPc[f] = "idle"
    /\ sendPc' = [sendPc EXCEPT ![f] = "get"]
    /\ UNCHANGED <<gate, presignal, passed, sendResult, sinceCall, sentFor>>
    /\ SendsFrame

\* the connection is obtained: on a URL connection the exchange starts, on a
\* WebSocket connection connection.cooldown is read and awaited
SendGot(f) ==
    /\ sendPc[f] = "get"
    /\ IF shared = "url"
       THEN /\ sendPc' = [sendPc EXCEPT ![f] = "sent"]
            /\ passed' = [passed EXCEPT ![f] = PassedTo("url", f)]
            /\ UNCHANGED gate
       ELSE /\ sendPc' = [sendPc EXCEPT ![f] = "cooldown"]
            /\ gate' = Append(gate, f)
            /\ UNCHANGED passed
    /\ UNCHANGED <<presignal, sendResult, sinceCall, sentFor>>
    /\ SendsFrame

\* the exchange on the socket starts without the await
SendCooledUnawaited(f) ==
    /\ sendPc[f] = "cooldown"
    /\ sendPc' = [sendPc EXCEPT ![f] = "sent"]
    /\ passed' = [passed EXCEPT ![f] = PassedTo("ws", f)]
    /\ UNCHANGED <<gate, presignal, sendResult, sinceCall, sentFor>>
    /\ SendsFrame

\* await connection.cooldown has returned: TorRpc.tryFetchWithSocket is called
SendCooled(f) ==
    /\ sendPc[f] = "cooldown"
    /\ cooldown(f)
    /\ sendPc' = [sendPc EXCEPT ![f] = "sent"]
    /\ passed' = [passed EXCEPT ![f] = PassedTo("ws", f)]
    /\ UNCHANGED <<gate, presignal, sendResult, sinceCall, sentFor>>
    /\ SendsFrame

\* the exchange of fetch f has ended with a response or with an error
SendSettle(f) ==
    /\ sendPc[f] = "sent"
    /\ sendPc' = [sendPc EXCEPT ![f] = "settled"]
    /\ \E r \in {"answer", "error"} : sendResult' = [sendResult EXCEPT ![f] = r]
    /\ UNCHANGED <<gate, presignal, passed, sinceCall, sentFor>>
    /\ SendsFrame

\* the exchange of fetch f is ended by its signal
SendAbort(f) ==
    /\ sendPc[f] = "sent"
    /\ SignalAborted(f)
    /\ sendPc' = [sendPc EXCEPT ![f] = "settled"]
    /\ sendResult' = [sendResult EXCEPT ![f] = "aborted"]
    /\ UNCHANGED <<gate, presignal, passed, sinceCall, sentFor>>
    /\ SendsFrame

\* the gate is released once the exchange of the request holding it has ended
GateRelease ==
    /\ gate # <<>>
    /\ sendPc[Head(gate)] = "settled"
    /\ gate' = Tail(gate)
    /\ UNCHANGED <<sendPc, presignal, passed, sendResult, sinceCall, sentFor>>
    /\ SendsFrame

\* the caller aborts the signal it gave to fetch f, while that fetch runs
CallerAborts(f) ==
    /\ presignal[f] = "armed"
    /\ sendPc[f] \in {"get", "cooldown", "sent"}
    /\ presignal' = [presignal EXCEPT ![f] = "aborted"]
    /\ UNCHANGED <<gate, sendPc, passed, sendResult, sinceCall, sentFor>>
    /\ SendsFrame

\* the fetches whose exchange is in flight
Sent == {f \in Fetches : sendPc[f] = "sent"}

RECURSIVE MinRemaining(_)
MinRemaining(fs) ==
    IF fs = {} THEN TickMs
    ELSE LET f == CHOOSE x \in fs : TRUE
         IN Min(Remaining(f), MinRemaining(fs \ {f}))

\* time passes, up to the next timer of an exchange in flight; an exchange
\* whose signal is aborted ends before any time passes
Tick ==
    /\ \E f \in Fetches : sendPc[f] \in {"get", "cooldown", "sent"}
    /\ \A f \in Sent : ~SignalAborted(f)
    /\ LET step == MinRemaining(Sent)
       IN /\ sinceCall' = [f \in Fetches |->
                 IF sendPc[f] \in {"get", "cooldown", "sent"} /\ retrySignal(f) = "default"
                                                             /\ fetcher = "retry"
                 THEN Min(sinceCall[f] + step, DefaultTimeout) ELSE sinceCall[f]]
          /\ sentFor' = [f \in Fetches |->
                 IF f \in Sent THEN Min(sentFor[f] + step, MaxElapsed) ELSE sentFor[f]]
    /\ UNCHANGED <<gate, sendPc, presignal, passed, sendResult>>
    /\ SendsFrame

SendsNext ==
    \/ \E f \in Fetches : SendCalled(f)
    \/ \E f \in Fetches : SendGot(f)
    \/ \E f \in Fetches : SendCooled(f)
    \/ \E f \in Fetches : SendSettle(f)
    \/ \E f \in Fetches : SendAbort(f)
    \/ GateRelease
    \/ \E f \in Fetches : CallerAborts(f)
    \/ Tick

SpecSends == SendsInit /\ [][SendsNext]_vars

\* what the event loop and the timers guarantee: a resolved await continues,
\* an aborted signal ends its exchange, the gate is released, time passes;
\* nothing makes a node answer
SendsFairness ==
    /\ \A f \in Fetches : WF_vars(SendCooled(f))
    /\ \A f \in Fetches : WF_vars(SendAbort(f))
    /\ WF_vars(GateRelease)
    /\ WF_vars(Tick)

SpecSendsFair == SpecSends /\ SendsFairness

(***************************************************************************)
(* What the claims say of a vote, stated on the occurrence counts of the   *)
(* answers.  Two answers are the same answer when they serialise to the    *)
(* same text.                                                              *)
(***************************************************************************)
Completed(results) == {i \in 1..Len(results) : results[i].status = "fulfilled"}

Answers(results) == {Stringify(results[i].value) : i \in Completed(results)}

Occurrences(results, k) ==
    Cardinality({i \in Completed(results) : Stringify(results[i].value) = k})

\* k has the highest count and no other answer reaches it
StrictlyHighest(results, k) ==
    /\ k \in Answers(results)
    /\ \A other \in Answers(results) \ {k} :
          Occurrences(results, other) < Occurrences(results, k)

\* the two highest counts are equal
TopTwoEqual(results) ==
    \E k1, k2 \in Answers(results) :
        /\ k1 # k2
        /\ Occurrences(results, k1) = Occurrences(results, k2)
        /\ \A other \in Answers(results) :
              Occurrences(results, other) <= Occurrences(results, k1)

\* the vote returned an answer that serialises to k, brought by a candidate
ReturnsAnswer(results, vote, k) ==
    /\ vote.status = "fulfilled"
    /\ Stringify(vote.value) = k
    /\ \E i \in Completed(results) : results[i].value = vote.value

FailsWith(vote, err) == vote = Rejected(err)

\* C2: at either level, outcomes with two or more distinct answers whose two
\* highest occurrence counts are equal make the vote fail with 'Could not
\* choose truth', whatever the tied count is.
C2_TieIsAmbiguous ==
    votePc = "voted" /\ Cardinality(Answers(voteIn)) >= 2 /\ TopTwoEqual(voteIn)
        => /\ FailsWith(connVote, CouldNotChooseTruth)
           /\ FailsWith(poolVote, CouldNotChooseTruth)

\* a tie at 2-and-2 above a third answer seen once
C2_Witness ==
    /\ votePc = "voted"
    /\ Cardinality(Answers(voteIn)) = 3
    /\ TopTwoEqual(voteIn)
    /\ \E k \in Answers(voteIn) : Occurrences(voteIn, k) = 1
    /\ Cardinality(Completed(voteIn)) = 5
    /\ FailsWith(connVote, CouldNotChooseTruth)
    /\ FailsWith(poolVote, CouldNotChooseTruth)

\* C3: at either level, with two or more distinct answers of which one has a
\* count strictly above every other, the vote returns that answer, whatever
\* the counts of the others (ties below the top do not matter).
C3_StrictPluralityWins ==
    \A k \in 1..NumVotePayloads :
        votePc = "voted" /\ Cardinality(Answers(voteIn)) >= 2 /\ StrictlyHighest(voteIn, k)
            => /\ ReturnsAnswer(voteIn, connVote, k)
               /\ ReturnsAnswer(voteIn, poolVote, k)

\* an answer seen twice wins over two answers seen once each (tied below it),
\* the winner being the last answer to enter the tally
C3_Witness ==
    /\ votePc = "voted"
    /\ Cardinality(Answers(voteIn)) = 3
    /\ \E k \in Answers(voteIn) :
          /\ Occurrences(voteIn, k) = 2
          /\ \A other \in Answers(voteIn) \ {k} : Occurrences(voteIn, other) = 1
          /\ voteIn[1].status = "fulfilled" /\ Stringify(voteIn[1].value) # k
          /\ ReturnsAnswer(voteIn, connVote, k)
          /\ ReturnsAnswer(voteIn, poolVote, k)

\* C4: at either level, when the completed outcomes hold exactly one distinct
\* answer (from one candidate or more, the others having failed), the vote
\* returns that answer.
C4_OneTruthIsReturned ==
    \A k \in 1..NumVotePayloads :
        votePc = "voted" /\ Answers(voteIn) = {k}
            => /\ ReturnsAnswer(voteIn, connVote, k)
               /\ ReturnsAnswer(voteIn, poolVote, k)

\* one answer given by two candidates among three that failed, the first
\* candidate being one of those that failed
C4_Witness ==
    /\ votePc = "voted"
    /\ Cardinality(Answers(voteIn)) = 1
    /\ Cardinality(Completed(voteIn)) = 2 /\ Len(voteIn) = 5
    /\ voteIn[1].status = "rejected"
    /\ connVote.status = "fulfilled" /\ poolVote.status = "fulfilled"

\* C5: at either level, when every candidate failed (no outcome completed),
\* the vote fails with the AggregateError of Promise.any and gives no answer.
C5_NoResponseFails ==
    votePc = "voted" /\ Completed(voteIn) = {}
        => /\ FailsWith(connVote, AggregateError)
           /\ FailsWith(poolVote, AggregateError)

\* three candidates, all failed
C5_Witness ==
    /\ votePc = "voted"
    /\ Len(voteIn) = 3 /\ Completed(voteIn) = {}
    /\ FailsWith(connVote, AggregateError)
    /\ FailsWith(poolVote, AggregateError)

\* the same answer, or the same kind of failure
SameOutcome(a, b) ==
    /\ a.status = b.status
    /\ a.status = "fulfilled" => Stringify(a.value) = Stringify(b.value)
    /\ a.status = "rejected" => a.value.tag = b.value.tag

\* results with the outcomes at i and i + 1 exchanged
Exchanged(results, i) ==
    [n \in 1..Len(results) |->
        IF n = i THEN results[i + 1] ELSE IF n = i + 1 THEN results[i] ELSE results[n]]

\* the outcome the occurrence counts alone determine
OutcomeOfCounts(results, vote) ==
    IF Answers(results) = {} THEN vote.status = "rejected" /\ vote.value.tag = AggregateError
    ELSE IF \E k \in Answers(results) : StrictlyHighest(results, k)
    THEN vote.status = "fulfilled" /\ StrictlyHighest(results, Stringify(vote.value))
    ELSE vote.status = "rejected" /\ vote.value.tag = CouldNotChooseTruth

\* C10: the outcome of a vote depends only on the multiset of outcomes: it is
\* the outcome the occurrence counts determine, and exchanging two neighbouring
\* outcomes (the exchanges that generate every permutation; every sequence up
\* to the bound is an input) leaves the answer or the kind of failure the same.
C10_OrderIndependent ==
    votePc = "voted"
        => /\ OutcomeOfCounts(voteIn, connVote)
           /\ OutcomeOfCounts(voteIn, poolVote)
           /\ \A i \in 1..(Len(voteIn) - 1) :
                 /\ SameOutcome(runWithPoolVote(Exchanged(voteIn, i)), connVote)
                 /\ SameOutcome(tryEthereumFetchVote(Exchanged(voteIn, i)), poolVote)

\* the answer counted twice enters the tally after the one counted once:
\* the sort moves it to the front
C10_Witness ==
    /\ votePc = "voted"
    /\ Len(voteIn) = 4
    /\ voteIn[1].status = "fulfilled"
    /\ voteIn[2].status = "fulfilled"
    /\ Stringify(voteIn[2].value) # Stringify(voteIn[1].value)
    /\ voteIn[3] = voteIn[2]
    /\ voteIn[4].status = "rejected"
    /\ connVote = voteIn[2] /\ poolVote = voteIn[2]

(***************************************************************************)
(* What the claims say of one fetch, stated on the outcomes of its         *)
(* exchanges.                                                              *)
(***************************************************************************)
\* the connections of circuit i, as the fetch left them
connsOf(i) == connPromise[i]

\* the answer a plurality of ballots elects, 0 when they elect none
\* (a ballot is the text of an answer, or 0 for a candidate that failed)
Elected(ballots) ==
    LET texts == {ballots[n] : n \in DOMAIN ballots} \ {0}
        count(k) == Cardinality({n \in DOMAIN ballots : ballots[n] = k})
    IN IF \E k \in texts : \A o \in texts \ {k} : count(o) < count(k)
       THEN CHOOSE k \in texts : \A o \in texts \ {k} : count(o) < count(k)
       ELSE 0

\* the ballots of the connections of circuit i
ConnBallots(i) ==
    [j \in DOMAIN connPromise[i] |->
        IF connPromise[i][j].status = "fulfilled"
        THEN Stringify(connPromise[i][j].value) ELSE 0]

\* the ballots of the circuits: what each circuit's connections elect
CircuitBallots == [i \in DOMAIN connPromise |-> Elected(ConnBallots(i))]

\* the fetch returned an answer
Answered == returned.status = "Ok" /\ returned.value.tag \in {"data", "fail"}

\* the fetch returned a failure and no answer
Failed ==
    /\ returned.status = "Err"
    /\ returned.value.tag \in {AggregateError, CouldNotChooseTruth, UnwrapError}
    /\ returned.value.inner = 0

\* C1: an answer the fetch returns won the vote of at least one circuit (the
\* only answer of its completed exchanges, or strictly the most frequent) and
\* won the vote over the circuit-level outcomes; it is an answer a connection
\* gave; otherwise the fetch returns a failure and no answer.
C1_AnswerClearsBothVotes ==
    pc = "done" =>
        /\ Answered \/ Failed
        /\ Answered =>
              /\ \E i \in DOMAIN connPromise :
                    /\ StrictlyHighest(connsOf(i), Stringify(returned.value))
                    /\ poolPromise[i] = Fulfilled(returned.value)
              /\ StrictlyHighest(poolPromise, Stringify(returned.value))
              /\ \E i \in DOMAIN connPromise : \E j \in DOMAIN connPromise[i] :
                    connPromise[i][j] = Fulfilled(returned.value)
        /\ ~(\E k \in 1..NumPayloads : StrictlyHighest(poolPromise, k)) => Failed

\* an answer returned after winning 2-to-1 in a circuit of three connections
\* and being the only answer of the circuits, the other circuit having failed
C1_Witness ==
    /\ pc = "done" /\ Answered
    /\ Len(pools) = 2
    /\ \E i, o \in DOMAIN connPromise :
          /\ Cardinality(Answers(connsOf(i))) = 2
          /\ StrictlyHighest(connsOf(i), Stringify(returned.value))
          /\ poolPromise[o].status = "rejected"

\* C6: the result of a fetch is the vote over the circuit-level outcomes,
\* each being the vote over the connections of that circuit; a circuit whose
\* vote failed (tie, or no response) is a failed candidate of the second vote.
C6_TwoLevelVote ==
    pc = "done" /\ brume[chainId].present =>
        /\ \A i \in DOMAIN poolPromise :
              IF Elected(ConnBallots(i)) = 0
              THEN poolPromise[i].status = "rejected"
              ELSE /\ poolPromise[i].status = "fulfilled"
                   /\ Stringify(poolPromise[i].value) = Elected(ConnBallots(i))
        /\ IF Elected(CircuitBallots) = 0
           THEN Failed
           ELSE Answered /\ Stringify(returned.value) = Elected(CircuitBallots)

\* circuit A returns P1, P1 and circuit B returns P1, P2: B fails on its tie
\* and the fetch returns P1
C6_Witness ==
    /\ pc = "done"
    /\ Len(pools) = 2
    /\ connPromise[1] = <<Fulfilled(Data(1)), Fulfilled(Data(1))>>
    /\ connPromise[2] = <<Fulfilled(Data(1)), Fulfilled(Data(2))>>
    /\ poolPromise[2] = Rejected(CouldNotChooseTruth)
    /\ returned = [status |-> "Ok", value |-> Data(1)]

\* requests sent on any connection of any chain of the directory
AnySend ==
    \E c \in DOMAIN sends : \E i \in DOMAIN sends[c] : \E j \in DOMAIN sends[c][i] :
        sends[c][i][j] > 0

\* C7: when the directory has no entry for the chain of the request, the
\* fetch returns a failure and no request is sent on any connection.
C7_NoChainNoSend ==
    ~brume[chainId].present =>
        /\ ~AnySend
        /\ pc = "done" =>
              /\ returned.status = "Err"
              /\ returned.value =
                    [tag |-> IF fetcher = "consensus" THEN UnwrapError ELSE NoneError,
                     inner |-> 0]

\* the fetch has returned its failure while the directory holds the circuits
\* of another chain
C7_Witness ==
    /\ ~brume[chainId].present
    /\ \E c \in ChainIds : brume[c].present /\ Sum(brume[c].pools) = MaxTotal
    /\ pc = "done" /\ returned.status = "Err"

\* the pool entry at j of circuit i held a connection of one of the two kinds
HeldConnection(i, j) ==
    /\ poolPromise[i] # Rejected(UnwrapError) \/ connPc[i][j] # "new"
    /\ connPromise[i][j] \notin {Rejected(UnwrapError), Rejected(PanicError)}

\* C8 (state part): no connection is used twice; when the fetch returns,
\* every index below the capacity of the pool of pools was run, every index
\* below the capacity of each circuit pool obtained was run, and the request
\* went out exactly once on every connection held there.
C8_OncePerConnection ==
    /\ \A c \in DOMAIN sends : \A i \in DOMAIN sends[c] : \A j \in DOMAIN sends[c][i] :
          sends[c][i][j] <= 1 /\ (c # chainId => sends[c][i][j] = 0)
    /\ pc = "done" /\ brume[chainId].present =>
          \A i \in 1..Len(brume[chainId].pools) :
              /\ poolPc[i] = "settled"
              /\ \A j \in 1..brume[chainId].pools[i] :
                    /\ poolPromise[i] # Rejected(UnwrapError) => connPc[i][j] = "settled"
                    /\ sends[chainId][i][j] = IF HeldConnection(i, j) THEN 1 ELSE 0

\* C8: the state part, and no send is made once a vote has settled: none in
\* circuit i after its promise settled, none at all after the fetch returned.
C8_FullFanOutNoRetry ==
    /\ []C8_OncePerConnection
    /\ [][/\ pc = "done" => sends' = sends
          /\ \A i \in DOMAIN poolPc :
                poolPc[i] = "settled" => sends'[chainId][i] = sends[chainId][i]]_vars

\* a fetch over three circuits of capacities 1, 2 and 1 failed on a tie of
\* the circuits after the four requests went out
C8_Witness ==
    /\ pc = "done" /\ Failed
    /\ pools = <<1, 2, 1>>
    /\ \A i \in 1..3 : \A j \in 1..pools[i] : sends[chainId][i][j] = 1
    /\ returned.value.tag = CouldNotChooseTruth

\* an exchange is in flight, or about to start, on connection j of circuit i
InFlight(i, j) == connPc[i][j] \in {"get", "cooldown", "sent"}

\* C9: the fetch does not return, and the promise of a circuit does not
\* settle, while one of the sends it started has not settled.
C9_JoinNotRace ==
    /\ pc = "done" =>
          \A i \in DOMAIN connPc : \A j \in DOMAIN connPc[i] : ~InFlight(i, j)
    /\ pc = "done" => \A i \in DOMAIN poolPc : poolPc[i] \in {"new", "settled"}
    /\ \A i \in DOMAIN poolPc :
          poolPc[i] = "settled" => \A j \in DOMAIN connPc[i] : ~InFlight(i, j)

\* a connection has answered, its sibling is still in flight, and neither the
\* circuit nor the fetch has returned
C9_Witness ==
    /\ pc = "running"
    /\ \E i \in DOMAIN connPc :
          /\ poolPc[i] = "join"
          /\ \E j, k \in DOMAIN connPc[i] :
                /\ connPromise[i][j].status = "fulfilled"
                /\ connPc[i][k] = "sent"

\* the circuits that contributed an outcome to the vote of the fetch
Contributing == {i \in DOMAIN poolPromise : poolPromise[i].status = "fulfilled"}

\* the ballots of the circuits that hold at least one connection
NonEmptyCircuitBallots ==
    [i \in {n \in DOMAIN connPromise : pools[n] > 0} |-> Elected(ConnBallots(i))]

\* C11: a circuit pool of capacity 0 is a failed candidate of the vote over
\* the circuits and no more: the fetch returns what the circuits that hold
\* connections elect, and it fails for lack of responses exactly when no
\* circuit contributed an outcome.
C11_EmptyPoolIsNoOutcome ==
    pc = "done" /\ brume[chainId].present =>
        /\ \A i \in DOMAIN poolPromise :
              pools[i] = 0 => poolPromise[i] \in {Rejected(AggregateError), Rejected(UnwrapError)}
        /\ IF Elected(NonEmptyCircuitBallots) = 0
           THEN Failed
           ELSE Answered /\ Stringify(returned.value) = Elected(NonEmptyCircuitBallots)
        /\ Contributing = {} <=> returned.status = "Err" /\ returned.value.tag = AggregateError

\* an empty circuit pool was obtained and joined, another circuit elected an
\* answer, and the fetch returned that answer
C11_Witness ==
    /\ pc = "done" /\ Answered
    /\ \E i, o \in DOMAIN poolPromise :
          /\ pools[i] = 0 /\ poolPromise[i] = Rejected(AggregateError)
          /\ pools[o] > 0 /\ poolPromise[o] = Fulfilled(returned.value)

\* the connections whose exchange returned the payload that serialises to k
Returning(k) ==
    {<<i, j>> \in (DOMAIN connPromise) \X (1..MaxConns) :
        /\ j \in DOMAIN connPromise[i]
        /\ connPromise[i][j].status = "fulfilled"
        /\ Stringify(connPromise[i][j].value) = k}

\* exactly one connection returned b; every other connection returned h or
\* failed, and at least one returned h
OneDeviates(b, h) ==
    /\ b # h
    /\ Cardinality(Returning(b)) = 1
    /\ Returning(h) # {}
    /\ \A k \in 1..NumPayloads : k \notin {b, h} => Returning(k) = {}

\* C12: when exactly one connection returns a deviating payload B and every
\* other connection returns one common payload H or fails, at least one
\* returning H, the fetch does not return B.  Payloads are the inner values
\* the code serialises.
C12_LoneDeviantNeverWins ==
    pc = "done" =>
        \A b, h \in 1..NumPayloads :
            OneDeviates(b, h) => ~(Answered /\ Stringify(returned.value) = b)

\* the deviating payload won the vote of its own circuit, where it was alone,
\* and lost the vote of the circuits to the common payload
C12_Witness ==
    /\ pc = "done" /\ Answered
    /\ \E b, h \in 1..NumPayloads :
          /\ OneDeviates(b, h)
          /\ \E i \in DOMAIN poolPromise :
                poolPromise[i].status = "fulfilled" /\ Stringify(poolPromise[i].value) = b
          /\ Stringify(returned.value) = h

(***************************************************************************)
(* What the claims say of the fetches that share one connection.           *)
(***************************************************************************)
\* the fetches the gate holds, waiting or sending
Gated == {gate[n] : n \in DOMAIN gate}

PoolAttemptBegins == loopPc = "drawPool" /\ loopPc' = "inner"

\* an attempt on a connection begins in this step
ConnAttemptBegins == loopPc = "drawConn" /\ allTriedConns' # allTriedConns

\* C15 (state part): in one call of the retry-based fetch the request goes
\* out at most once on a connection, and only on connections tried in a pool
\* that was tried.
C15_SentOncePerConnection ==
    fetcher = "retry" =>
        \A c \in DOMAIN sends : \A i \in DOMAIN sends[c] : \A j \in DOMAIN sends[c][i] :
            /\ sends[c][i][j] <= 1
            /\ sends[c][i][j] = 1 => c = chainId /\ i \in allTriedPools
            /\ sends[c][i][j] = 1 /\ i = drawn[1] /\ loopPc \in {"sent", "inner", "drawConn"}
                  => j \in allTriedConns

\* C15: within one call no circuit pool is attempted twice and, within one
\* pool attempt, no connection is attempted twice, whatever the draws return:
\* an attempt begins on a candidate that was not in the tried set, the tried
\* sets only grow (the set of connections within one pool attempt), and the
\* request is sent at most once per connection.
C15_NoCandidateTwice ==
    /\ []C15_SentOncePerConnection
    /\ [][/\ PoolAttemptBegins =>
                /\ drawn'[1] \notin allTriedPools
                /\ allTriedPools' = allTriedPools \cup {drawn'[1]}
          /\ ConnAttemptBegins =>
                /\ drawn'[2] \notin allTriedConns
                /\ allTriedConns' = allTriedConns \cup {drawn'[2]}
          /\ pc = "running" => allTriedPools \subseteq allTriedPools'
          /\ pc = "running" /\ ~PoolAttemptBegins => allTriedConns \subseteq allTriedConns'
         ]_vars

\* the second pool attempt of a call is under way: the request went out on a
\* connection of the first pool and goes out on one of the second
C15_Witness ==
    /\ fetcher = "retry" /\ pc = "running"
    /\ Cardinality(allTriedPools) = 2
    /\ redraws = 0 /\ loopPc = "sent"
    /\ attempts[1] = 1
    /\ \E i \in allTriedPools \ {drawn[1]} : \E j \in DOMAIN sends[chainId][i] :
          sends[chainId][i][j] = 1
    /\ sends[chainId][drawn[1]][drawn[2]] = 1

\* the inner tryLoop returns for lack of attempts left in this step
InnerLoopExhausted ==
    fetcher = "retry" /\ loopPc = "inner" /\ loopPc' \notin {"inner", "drawConn"}

\* the outer tryLoop returns for lack of attempts left in this step
OuterLoopExhausted == fetcher = "retry" /\ loopPc = "outer" /\ loopPc' = "idle"

\* the errors are those of transient failures of an exchange
AllTransient(errs) == \A n \in DOMAIN errs : errs[n] = ErrorOf(ExchangeError)

\* C16: a loop over N candidates whose attempts all fail transiently makes N
\* attempts, one per candidate, and returns an aggregate failure that lists N
\* errors, one per attempt: the connection-level loop over the N connections
\* of a pool, and the pool-level loop over the N pools; no loop makes more
\* than N attempts.
C16_NErrorsForNCandidates ==
    /\ [](fetcher = "retry" /\ pc = "running" =>
             /\ attempts[1] <= Len(pools)
             /\ loopPc \in {"inner", "drawConn", "cooldown", "sent"} =>
                   attempts[2] <= pools[drawn[1]])
    /\ [][/\ InnerLoopExhausted =>
                LET N == pools[drawn[1]]
                IN /\ innerReturned'.status = "Err"
                   /\ innerReturned'.value = TooManyRetries(errors[2])
                   /\ Len(errors[2]) = N /\ AllTransient(errors[2])
                   /\ attempts[2] = N
                   /\ allTriedConns = 1..N
                   /\ \A j \in 1..N : sends[chainId][drawn[1]][j] = 1
          /\ OuterLoopExhausted =>
                LET N == Len(pools)
                IN /\ returned'.status = "Err"
                   /\ returned'.value = TooManyRetries(errors[1])
                   /\ Len(errors[1]) = N
                   /\ attempts[1] = N
                   /\ allTriedPools = 1..N
         ]_vars

\* the two connections of a pool failed one after the other and the inner
\* loop returned the two errors
C16_Witness ==
    /\ fetcher = "retry" /\ loopPc = "outer"
    /\ drawn[1] # 0 /\ pools[drawn[1]] = 2
    /\ innerReturned.status = "Err"
    /\ innerReturned.value = TooManyRetries(<<ErrorOf(ExchangeError), ErrorOf(ExchangeError)>>)
    /\ errors[1] = <<innerReturned.value>>

\* the looper of the outer tryLoop ends on the failed draw of a circuit pool
PoolDrawFails == fetcher = "retry" /\ loopPc = "drawPool" /\ supply[1] = {} /\ supply' = supply

\* the looper of the inner tryLoop ends on the failed draw of a connection
ConnDrawFails == fetcher = "retry" /\ loopPc = "drawConn" /\ supply[2] = {} /\ supply' = supply

\* the looper of tryFetch ends on a brume that has no socket for the chain
ChainIsMissing ==
    /\ fetcher = "tryFetch" /\ loopPc = "outer"
    /\ attempts[1] < DefaultMax /\ BrumeAt(attempts[1]) = "nochain"

\* no candidate is drawn or tried in this step
NothingTried == UNCHANGED <<allTriedPools, allTriedConns, sends, attempts, errors>>

\* C17: when an attempt of a loop ends with a fatal (cancel) outcome, that
\* loop stops at that attempt and returns that failure, and nothing more is
\* drawn or tried by it: the pool-level loop of the fetch and the loop of
\* tryFetch end the call with it, the connection-level loop ends the pool
\* attempt with it; once the call has returned nothing is drawn or tried.
C17_CancelStopsTheLoop ==
    [][/\ PoolDrawFails =>
             /\ pc' = "done" /\ loopPc' = "idle"
             /\ returned' = [status |-> "Err", value |-> ErrorOf(CancelError)]
             /\ NothingTried
       /\ ConnDrawFails =>
             /\ innerReturned' = [status |-> "Err", value |-> ErrorOf(CancelError)]
             /\ loopPc' \notin {"inner", "drawConn", "cooldown", "sent"}
             /\ UNCHANGED <<allTriedPools, allTriedConns, sends>>
       /\ ChainIsMissing =>
             /\ pc' = "done" /\ loopPc' = "idle"
             /\ returned' = [status |-> "Err", value |-> ErrorOf(NoneError)]
             /\ NothingTried
       /\ pc = "done" => pc' = "done" /\ returned' = returned /\ NothingTried
      ]_vars

\* the first attempt failed on its exchanges, the draw of the second circuit
\* pool failed, and the call returned the Cancel after one attempt
C17_Witness ==
    /\ fetcher = "retry" /\ pc = "done"
    /\ returned = [status |-> "Err", value |-> ErrorOf(CancelError)]
    /\ attempts[1] = 1 /\ Len(errors[1]) = 1
    /\ Cardinality(allTriedPools) = 1 /\ Len(pools) >= 2

\* a draw of a circuit pool when every pool the source can supply was tried
\* (or it supplies none)
PoolSourceExhausted ==
    /\ fetcher = "retry" /\ loopPc = "drawPool"
    /\ supply[1] \subseteq allTriedPools /\ supply' = supply

\* a draw of a connection when every connection the source can supply was
\* tried (or it supplies none)
ConnSourceExhausted ==
    /\ fetcher = "retry" /\ loopPc = "drawConn"
    /\ supply[2] \subseteq allTriedConns /\ supply' = supply

\* C18: in the retry loop, when the candidate source has no untried candidate
\* left (it is empty, or every candidate it can supply was already tried) and
\* no attempt has succeeded, the loop fails at once with a Cancel instead of
\* drawing again.
C18_ExhaustedSourceCancels ==
    [][/\ PoolSourceExhausted =>
             /\ pc' = "done"
             /\ returned' = [status |-> "Err", value |-> ErrorOf(CancelError)]
       /\ ConnSourceExhausted =>
             /\ innerReturned' = [status |-> "Err", value |-> ErrorOf(CancelError)]
             /\ loopPc' \notin {"drawConn", "cooldown", "sent"}
      ]_vars

\* C19: every send is bounded by the fixed timeout ceiling combined with the
\* caller's signal, on both connection kinds: no exchange is still in flight
\* after more than the ceiling, whatever the caller's signal allows.
C19_SendWithinCeiling ==
    \A f \in Fetches : sendPc[f] = "sent" => sentFor[f] <= TimeoutCeiling

\* C20: once the caller's signal of a fetch has fired, no exchange of that
\* fetch keeps running, on either connection kind: an exchange in flight ends
\* before any time passes for it.
C20_CallerAbortEndsExchanges ==
    [][\A f \in Fetches :
          presignal[f] = "aborted" /\ sendPc[f] = "sent" => sentFor'[f] = sentFor[f]
      ]_vars

(***************************************************************************)
(* What the claims say of the failures and of the termination of a fetch.  *)
(***************************************************************************)
\* some connection of the fetch completed its exchange with an answer
SomeAnswer ==
    \E i \in DOMAIN connPromise : \E j \in DOMAIN connPromise[i] :
        connPromise[i][j].status = "fulfilled"

\* the kind of the failure the fetch returned
FailureKind == returned.value.tag

\* C21: the failure a fetch returns tells which situation occurred, by three
\* distinct kinds: no circuit configured for the chain, no candidate
\* responded, the answers disagreed; a fetch that fails although candidates
\* answered failed on their disagreement and returns the disagreement kind.
C21_FailureKindTellsSituation ==
    pc = "done" /\ returned.status = "Err" =>
        /\ FailureKind \in {UnwrapError, AggregateError, CouldNotChooseTruth}
        /\ FailureKind = UnwrapError <=> ~brume[chainId].present
        /\ FailureKind = AggregateError <=> brume[chainId].present /\ ~SomeAnswer
        /\ FailureKind = CouldNotChooseTruth <=> brume[chainId].present /\ SomeAnswer

OtherVariantMet ==
    \E i \in DOMAIN connPromise : \E j \in DOMAIN connPromise[i] :
        connPromise[i][j] = Rejected(PanicError)

\* the fetch ended with the panic
Panicked == pc = "done" /\ returned.value.tag = PanicError

\* C23: a connection that is neither of the two variants makes the fetch end
\* with a panic; it is never a failed candidate of a vote the fetch goes on
\* to return from, nor an error a retry loop records before another attempt.
C23_OtherVariantPanics ==
    /\ pc = "done" /\ OtherVariantMet => Panicked
    /\ \A n \in DOMAIN errors[1] : errors[1][n].tag # PanicError
    /\ \A n \in DOMAIN errors[2] : errors[2][n].tag # PanicError
    /\ innerReturned.value.tag # PanicError

\* results with the candidate at i absent
Without(results, i) ==
    [n \in 1..(Len(results) - 1) |-> IF n < i THEN results[n] ELSE results[n + 1]]

\* the candidates whose exchange failed
FailedCandidates(results) == {i \in 1..Len(results) : results[i].status = "rejected"}

\* C24: at either level a candidate whose exchange failed contributes no
\* vote: the vote returns what it returns with that candidate absent, and the
\* failure of a candidate is never what the vote returns while another
\* candidate answered.
C24_FailedCandidateHasNoVote ==
    votePc = "voted" =>
        /\ \A i \in FailedCandidates(voteIn) :
              /\ runWithPoolVote(Without(voteIn, i)) = connVote
              /\ tryEthereumFetchVote(Without(voteIn, i)) = poolVote
        /\ Completed(voteIn) # {} =>
              /\ connVote \notin {voteIn[i] : i \in FailedCandidates(voteIn)}
              /\ poolVote \notin {voteIn[i] : i \in FailedCandidates(voteIn)}

\* two candidates answered P1, one answered P2 and two failed, the first
\* candidate being one that failed: P1 is returned as it is by the vote of
\* the three that answered
C24_Witness ==
    /\ votePc = "voted"
    /\ Len(voteIn) = 5 /\ Cardinality(FailedCandidates(voteIn)) = 2
    /\ voteIn[1].status = "rejected"
    /\ Cardinality(Answers(voteIn)) = 2
    /\ \E k \in Answers(voteIn) :
          /\ Occurrences(voteIn, k) = 2
          /\ ReturnsAnswer(voteIn, connVote, k)
          /\ ReturnsAnswer(voteIn, poolVote, k)

\* a call of the retry-based fetch begins
CallBegins == fetcher = "retry" /\ pc \in {"idle", "done"} /\ pc' = "running"

\* a pool attempt is under way: a pool was drawn and its attempt has not ended
InPoolAttempt == loopPc \in {"inner", "drawConn", "cooldown", "sent"}

\* a connection attempt is under way
InConnAttempt == loopPc \in {"cooldown", "sent"}

\* C25: the tried sets of the retry loop hold each candidate once and only
\* grow during a call: each attempt adds one candidate that was not in its
\* set; the set of pools is empty when a call begins, whatever the call
\* before left in it, and the set of connections is empty when a pool
\* attempt begins.
C25_TriedSetsGrowAndReset ==
    /\ [](fetcher = "retry" /\ pc = "running" =>
             /\ Cardinality(allTriedPools)
                   = attempts[1] + (IF InPoolAttempt THEN 1 ELSE 0)
             /\ InPoolAttempt =>
                   Cardinality(allTriedConns)
                       = attempts[2] + (IF InConnAttempt THEN 1 ELSE 0))
    /\ [][/\ CallBegins => allTriedPools' = {}
          /\ PoolAttemptBegins => allTriedConns' = {}
          /\ pc = "running" /\ pc' = "running" =>
                /\ allTriedPools \subseteq allTriedPools'
                /\ Cardinality(allTriedPools') <= Cardinality(allTriedPools) + 1
          /\ pc = "running" /\ pc' = "running" /\ ~PoolAttemptBegins =>
                /\ allTriedConns \subseteq allTriedConns'
                /\ Cardinality(allTriedConns') <= Cardinality(allTriedConns) + 1
         ]_vars

\* the second call has drawn the pool and the connection the first call had
\* tried: the request is in flight on that connection for the second time
C25_Witness ==
    /\ fetcher = "retry" /\ pc = "running" /\ loopPc = "sent"
    /\ allTriedPools = {drawn[1]} /\ allTriedConns = {drawn[2]}
    /\ sends[chainId][drawn[1]][drawn[2]] = 2

\* the exchange of the retry-based fetch ends in this step
ExchangeEnds == fetcher = "retry" /\ loopPc = "sent" /\ loopPc' # "sent"

\* the retry-based fetch returns a failure in this step
CallFails == fetcher = "retry" /\ pc = "running" /\ pc' = "done" /\ returned'.status = "Err"

\* the failure of a pool attempt whose connections all failed on their exchange
AllConnectionsFailed(err) ==
    IF err.tag = TooManyRetriesError THEN AllTransient(err.errors) ELSE FALSE

\* what holds of the end of an exchange: an answer ends the call with that
\* answer, an error is recorded and the loop over the connections goes on
TransientIsAbsorbed ==
    ExchangeEnds =>
        \/ /\ pc' = "done" /\ returned'.status = "Ok"
           /\ returned'.value \in FetchedsOf(NumPayloads)
        \/ /\ pc' = "running" /\ loopPc' = "inner"
           /\ errors'[2] = Append(errors[2], ErrorOf(ExchangeError))
           /\ UNCHANGED <<allTriedPools, allTriedConns>>

C27_SameVoteAtBothLevels ==
    votePc = "voted" => connVote = poolVote

\* both votes applied to a 2-to-1 plurality whose winner was answered as an
\* RpcError after it was answered as a result: both return the RpcError
C27_Witness ==
    /\ votePc = "voted"
    /\ connVote = poolVote
    /\ voteIn = <<Fulfilled(Data(1)), Fulfilled(Data(2)), Fulfilled(Fail(1))>>
    /\ connVote = Fulfilled(Fail(1))

\* in circuit i, strictly more than half of the connections that completed
\* an exchange answered h
MajorityIn(i, h) ==
    2 * Occurrences(connsOf(i), h) > Cardinality(Completed(connsOf(i)))

\* every circuit of which a connection completed has such a majority for h
MajorityEverywhere(h) ==
    \A i \in DOMAIN connPromise : Completed(connsOf(i)) # {} => MajorityIn(i, h)

\* C28: if in every circuit strictly more than half of the connections that
\* completed an exchange answered H, and at least one connection completed,
\* the fetch returns H: no other answer, and no failure.
C28_MajorityEverywhereWins ==
    \A h \in 1..NumPayloads :
        pc = "done" /\ brume[chainId].present /\ SomeAnswer /\ MajorityEverywhere(h)
            => Answered /\ Stringify(returned.value) = h

\* one circuit answered H, H and another answer, a second circuit answered H
\* on its only exchange that completed: the fetch returned H
C28_Witness ==
    /\ pc = "done" /\ Answered
    /\ Len(pools) = 2
    /\ \E i, o \in DOMAIN connPromise :
          /\ i # o
          /\ Cardinality(Completed(connsOf(i))) = 3
          /\ Cardinality(Answers(connsOf(i))) = 2
          /\ MajorityIn(i, Stringify(returned.value))
          /\ Cardinality(Completed(connsOf(o))) = 1
          /\ MajorityIn(o, Stringify(returned.value))

\* what the fetch returned, as a settled promise
ReturnedSettled ==
    [status |-> IF returned.status = "Ok" THEN "fulfilled" ELSE "rejected",
     value |-> returned.value]

\* connections of circuit i that completed an exchange
CompletedIn(i) == Cardinality(Completed(connsOf(i)))

\* C29: between the circuits each circuit that reached an outcome counts for
\* one vote, however many of its connections agreed: what the fetch returns
\* is what the counts of the circuit-level outcomes determine, one per
\* circuit, and an answer it returns is the outcome of a circuit.
C29_OneVotePerCircuit ==
    pc = "done" /\ brume[chainId].present =>
        /\ OutcomeOfCounts(poolPromise, ReturnedSettled)
        /\ Answered => \E i \in Contributing : poolPromise[i] = Fulfilled(returned.value)

\* a circuit of two agreeing connections against a circuit of one connection
\* with another answer: one vote each, the fetch fails on the tie although
\* two connections out of three agree
C29_Witness ==
    /\ pc = "done"
    /\ returned = [status |-> "Err", value |-> [tag |-> CouldNotChooseTruth, inner |-> 0]]
    /\ Len(pools) = 2
    /\ \E i, o \in Contributing :
          /\ CompletedIn(i) = 2 /\ CompletedIn(o) = 1
          /\ Cardinality(Answers(connsOf(i))) = 1
          /\ Stringify(poolPromise[i].value) # Stringify(poolPromise[o].value)

\* every candidate that answered k answered it as the RpcError of a node
ErrorOnly(results, k) ==
    \A i \in Completed(results) :
        Stringify(results[i].value) = k => results[i].value.tag = "fail"

\* the two highest counts are equal and one of them is that of an RpcError
TieWithError(results) ==
    \E k1, k2 \in Answers(results) :
        /\ k1 # k2 /\ ErrorOnly(results, k1)
        /\ Occurrences(results, k1) = Occurrences(results, k2)
        /\ \A other \in Answers(results) :
              Occurrences(results, other) <= Occurrences(results, k1)

\* C30: the RpcError a node answers with is counted like a result: with
\* strictly the highest count among the connections of a circuit it is the
\* outcome of that circuit, with strictly the highest count among the
\* circuits it is what the fetch returns, and when it ties at the top with
\* another answer the vote fails with Could not choose truth.
C30_ErrorResponseIsVoted ==
    pc = "done" /\ brume[chainId].present =>
        /\ \A i \in DOMAIN connPromise : \A k \in 1..NumPayloads :
              StrictlyHighest(connsOf(i), k) /\ ErrorOnly(connsOf(i), k)
                  => poolPromise[i] = [status |-> "fulfilled", value |-> Fail(k)]
        /\ \A k \in 1..NumPayloads :
              StrictlyHighest(poolPromise, k) /\ ErrorOnly(poolPromise, k)
                  => returned = [status |-> "Ok", value |-> Fail(k)]
        /\ \A i \in DOMAIN connPromise :
              TieWithError(connsOf(i)) => poolPromise[i] = Rejected(CouldNotChooseTruth)
        /\ TieWithError(poolPromise)
              => returned = [status |-> "Err", value |-> ErrorOf(CouldNotChooseTruth)]

\* a circuit elected an RpcError 2-to-1 over a result, another circuit
\* returned that result: one circuit each, and the fetch failed on the tie
C30_Witness ==
    /\ pc = "done"
    /\ returned = [status |-> "Err", value |-> ErrorOf(CouldNotChooseTruth)]
    /\ TieWithError(poolPromise)
    /\ \E i \in Contributing :
          /\ poolPromise[i].value.tag = "fail"
          /\ CompletedIn(i) = 3
          /\ Occurrences(connsOf(i), Stringify(poolPromise[i].value)) = 2
          /\ ErrorOnly(connsOf(i), Stringify(poolPromise[i].value))

(***************************************************************************)
(* What the claims say of the failures of the inner loop.                  *)
(***************************************************************************)
\* the inner tryLoop returns a failure in this step: its attempts are used
\* up, or the draw of a connection failed
InnerLoopFails == InnerLoopExhausted \/ ConnDrawFails

\* C31: in the retry-based fetch a failure of the connection-level loop of a
\* circuit, a Cancel or the aggregate of its errors, is a transient failure
\* for the circuit-level loop: the call does not return, the failure is
\* recorded as the error of that attempt, and the next attempt begins on a
\* circuit not yet tried; the call returns a Cancel only on the failed draw
\* of a circuit, and fails only on it or when the attempts are used up.
C31_InnerFailureIsTransient ==
    [][/\ InnerLoopFails =>
             /\ innerReturned'.status = "Err"
             /\ innerReturned'.value.tag \in {CancelError, TooManyRetriesError}
             /\ ConnDrawFails => innerReturned'.value = ErrorOf(CancelError)
             /\ pc' = "running" /\ loopPc' = "outer"
             /\ returned' = returned
             /\ errors'[1] = Append(errors[1], innerReturned'.value)
             /\ attempts'[1] = attempts[1] + 1
       /\ PoolAttemptBegins => drawn'[1] \notin allTriedPools
       /\ CallFails => PoolDrawFails \/ OuterLoopExhausted
       /\ CallFails /\ returned'.value = ErrorOf(CancelError) => PoolDrawFails
      ]_vars

\* the draw of a connection failed in the first circuit, and the request is
\* out on a connection of a second circuit
C31_Witness ==
    /\ fetcher = "retry" /\ pc = "running" /\ loopPc = "sent"
    /\ errors[1] = <<ErrorOf(CancelError)>>
    /\ Cardinality(allTriedPools) = 2
    /\ sends[chainId][drawn[1]][drawn[2]] = 1

(***************************************************************************)
(* The wallet records and their indexes (entities/wallets/data.ts): the    *)
(* query of a wallet is created with an indexer, which the store runs with *)
(* the state before and the state after each mutation of that query, and   *)
(* with the current state alone when it indexes a state again.             *)
(***************************************************************************)
\* mutations of the entities that are followed
MaxWrites == 4

\* names a wallet is given
NumNames == 2

\* the wallet data written under one uuid: seeded wallets and the others
WalletDatas(w) ==
    [type : {"seeded"}, uuid : {w}, seed : SeedIds, name : 1..NumNames]
        \cup [type : {"privateKey"}, uuid : {w}, seed : {0}, name : 1..NumNames]

\* WalletRef.from(currentData.inner)
WalletRefFrom(data) == [ref |-> TRUE, uuid |-> data.uuid]

\* p.filter(x => x.uuid !== uuid)
FilterUuid(p, uuid) == SelectSeq(p, LAMBDA x : x.uuid # uuid)

\* a mutator that adds the current reference and removes none
indexerMutatorAppend(d, previousData, currentData) ==
    IF currentData # NoData THEN Append(d, WalletRefFrom(currentData)) ELSE d

\* the function given to Mutators.mapData by the indexer, on both indexes
indexerMutator(d, previousData, currentData) ==
    LET filtered == IF previousData # NoData THEN FilterUuid(d, previousData.uuid) ELSE d
    IN IF currentData # NoData THEN Append(filtered, WalletRefFrom(currentData))
       ELSE filtered

\* what a mutation may write over a state: any data on a state without data,
\* and on a state with data the same wallet under another name, or nothing
\* (the deletion)
WalletWrites(w) ==
    IF walletStates[w] = NoData THEN WalletDatas(w)
    ELSE {[walletStates[w] EXCEPT !.name = n] : n \in 1..NumNames} \cup {NoData}

\* the store calls indexer({ current, previous }) of wallet w
indexerCalled(w, previous, current) ==
    indexing' = [indexing EXCEPT ![w] = [pc |-> "wallets", previous |-> previous,
                                          current |-> current]]

\* a mutation of Wallet.schema(uuid): the state is replaced and the indexer
\* is called with the state before and the state after
WalletMutate(w) ==
    /\ fetcher = "wallets"
    /\ indexing[w].pc = "idle"
    /\ writes < MaxWrites
    /\ \E data \in WalletWrites(w) \ {walletStates[w]} :
          /\ walletStates' = [walletStates EXCEPT ![w] = data]
          /\ indexerCalled(w, walletStates[w], data)
    /\ writes' = writes + 1
    /\ UNCHANGED <<walletsIndex, walletsBySeed>>
    /\ UNCHANGED <<fetchVars, loopVars, voteVars, sendVars, reverse, balanceVars, ledgerVars,
                   scriptVars>>

\* the state of Wallet.schema(uuid) is indexed again: indexer({ current }),
\* where `previous = current`
WalletReindex(w) ==
    /\ fetcher = "wallets"
    /\ indexing[w].pc = "idle"
    /\ writes < MaxWrites
    /\ indexerCalled(w, walletStates[w], walletStates[w])
    /\ writes' = writes + 1
    /\ UNCHANGED <<walletStates, walletsIndex, walletsBySeed>>
    /\ UNCHANGED <<fetchVars, loopVars, voteVars, sendVars, reverse, balanceVars, ledgerVars,
                   scriptVars>>

\* the indexer, up to the end of the mutation of Wallets.schema; it goes on
\* to the index of the seed only `if (currentData?.inner.type === "seeded")`
IndexWallets(w) ==
    /\ indexing[w].pc = "wallets"
    /\ walletsIndex' = indexerMutator(walletsIndex, indexing[w].previous, indexing[w].current)
    /\ indexing' = [indexing EXCEPT ![w].pc =
                       IF indexing[w].current.type = "seeded" THEN "bySeed" ELSE "idle"]
    /\ UNCHANGED <<walletStates, walletsBySeed, writes>>
    /\ UNCHANGED <<fetchVars, loopVars, voteVars, sendVars, reverse, balanceVars, ledgerVars,
                   scriptVars>>

\* the indexer, from there to its return: the mutation of
\* WalletsBySeed.Background.schema(seed.uuid)
IndexWalletsBySeed(w) ==
    /\ indexing[w].pc = "bySeed"
    /\ LET seed == indexing[w].current.seed
       IN walletsBySeed' = [walletsBySeed EXCEPT ![seed] =
              indexerMutator(@, indexing[w].previous, indexing[w].current)]
    /\ indexing' = [indexing EXCEPT ![w].pc = "idle"]
    /\ UNCHANGED <<walletStates, walletsIndex, writes>>
    /\ UNCHANGED <<fetchVars, loopVars, voteVars, sendVars, reverse, balanceVars, ledgerVars,
                   scriptVars>>

WalletsNext ==
    \E w \in WalletIds :
        \/ WalletMutate(w)
        \/ WalletReindex(w)
        \/ IndexWallets(w)
        \/ IndexWalletsBySeed(w)

\* the store before any wallet is written
WalletsInit ==
    /\ fetcher = "wallets"
    /\ FetchIdle
    /\ LoopIdle
    /\ VoteIdle
    /\ SendIdle
    /\ EntityIdle

SpecWallets == WalletsInit /\ [][WalletsNext]_vars

(***************************************************************************)
(* What the claims say of the indexes of the wallets.                      *)
(***************************************************************************)
\* the references of wallet w in an index
RefsOf(p, w) == Len(SelectSeq(p, LAMBDA x : x.uuid = w))

\* the indexer of wallet w has run
Indexed(w) == indexing[w].pc = "idle"

\* C32: after any sequence of writes and deletions of wallet records, once
\* the indexer of a wallet has run, the `wallets` index holds exactly one
\* reference of that wallet if it has data and none if its data was deleted.
C32_WalletsIndexIsExact ==
    \A w \in WalletIds :
        Indexed(w) =>
            RefsOf(walletsIndex, w) = IF walletStates[w] # NoData THEN 1 ELSE 0

\* the two wallets were written and the first was deleted: the indexer has
\* run on that deletion, and the index holds the reference of the second only
C32_Witness ==
    /\ fetcher = "wallets"
    /\ \A w \in WalletIds : Indexed(w)
    /\ indexing[1].previous # NoData /\ indexing[1].current = NoData
    /\ walletStates[1] = NoData /\ walletStates[2] # NoData
    /\ walletsIndex = <<[ref |-> TRUE, uuid |-> 2]>>

\* wallet w exists and is derived from seed s
DerivedFrom(w, s) == walletStates[w].type = "seeded" /\ walletStates[w].seed = s

\* C33: after any sequence of writes and deletions of seeded wallets, once
\* the indexer of a wallet has run, the index of a seed holds exactly one
\* reference of that wallet if it exists and is derived from that seed, and
\* none if it was deleted.
C33_SeedIndexIsExact ==
    \A w \in WalletIds : \A s \in SeedIds :
        Indexed(w) =>
            RefsOf(walletsBySeed[s], w) = IF DerivedFrom(w, s) THEN 1 ELSE 0

(***************************************************************************)
(* BgEns.Reverse.tryFetch (entities/wallets/data.ts): the name registered  *)
(* for an address, checked by the forward lookup of that name.  The calls  *)
(* to the resolver and to the node are one exchange each, which ends with  *)
(* an Err, with the Fail of the node, or with the decoded value.           *)
(***************************************************************************)
\* the length of an address, in hexadecimal digits
AddressLen == 2

\* names that are registered
NumEnsNames == 2

\* digits of an address: a letter in both cases, and a figure
HexDigits == {"a", "A", "1"}

Addresses == [1..AddressLen -> HexDigits]

\* the names a resolver returns: the empty string, or a name
EnsNames == {<<>>} \cup {<<n>> : n \in 1..NumEnsNames}

\* new Error(`Invalid address`)
InvalidAddress == "Error: Invalid address"

\* the failure a node answers with
RpcError == "RpcError"

Ok(value) == [status |-> "Ok", value |-> value]
Err(err) == [status |-> "Err", value |-> ErrorOf(err)]

\* how the exchanges of a lookup end, `values` being what can be decoded
LookupOutcomes(values) ==
    {Err(ExchangeError), Ok(Fail(RpcError))} \cup {Ok(Data(v)) : v \in values}

\* a comparison of the addresses as they are written
toLowerCaseNot(address) == address

\* String.prototype.toLowerCase on the digits of an address
toLowerCase(address) ==
    [i \in DOMAIN address |-> IF address[i] = "A" THEN "a" ELSE address[i]]

\* the data of an address that has no name: `undefined`
Undefined == <<0>>

\* the end of tryFetchUnchecked on what its exchanges gave: the data is
\* undefined `if (name.value.length === 0)`
tryFetchUnchecked(outcome) ==
    IF outcome.status = "Ok" /\ outcome.value.tag = "data" /\ Len(outcome.value.inner) = 0
    THEN Ok(Data(Undefined))
    ELSE outcome

\* a check that accepts every address
checkedAlways(address, name, address2) == Ok(name)

\* the end of Reverse.tryFetch, once Lookup.tryFetch has returned address2
checked(address, name, address2) ==
    IF address2.status = "Err" THEN address2
    ELSE IF address2.value.tag = "fail" THEN Ok(address2.value)
    ELSE IF toLowerCase(address) # toLowerCase(address2.value.inner)
         THEN Ok(Fail(InvalidAddress))
         ELSE Ok(name)

\* every part of `reverse` but the ones named is left as it is
ReverseFrame == UNCHANGED <<fetchVars, loopVars, voteVars, sendVars, walletVars, writes,
                            balanceVars, ledgerVars, scriptVars>>

\* Reverse.tryFetch(ethereum, address), up to its await of tryFetchUnchecked
ReverseCall ==
    /\ fetcher = "ens"
    /\ reverse.pc = "idle"
    /\ reverse' = [reverse EXCEPT !.pc = "unchecked"]
    /\ ReverseFrame

\* tryFetchUnchecked has returned: its Err is thrown to Result.unthrow, its
\* Fail and its empty data are returned, a name is looked up
UncheckedReturned ==
    /\ reverse.pc = "unchecked"
    /\ \E outcome \in LookupOutcomes(EnsNames) :
          LET name == tryFetchUnchecked(outcome)
          IN reverse' =
              IF name.status = "Err" \/ name.value.tag = "fail"
                 \/ name.value.inner = Undefined
              THEN [reverse EXCEPT !.pc = "done", !.name = name, !.returned = name]
              ELSE [reverse EXCEPT !.pc = "lookup", !.name = name, !.lookups = @ + 1]
    /\ ReverseFrame

\* Lookup.tryFetch(ethereum, name.inner) has returned
LookupReturned ==
    /\ reverse.pc = "lookup"
    /\ \E address2 \in LookupOutcomes(Addresses) :
          reverse' = [reverse EXCEPT
                         !.pc = "done", !.address2 = address2,
                         !.returned = checked(reverse.address, reverse.name.value, address2)]
    /\ ReverseFrame

EnsNext == ReverseCall \/ UncheckedReturned \/ LookupReturned

\* a reverse lookup of any address
EnsInit ==
    /\ fetcher = "ens"
    /\ FetchIdle
    /\ LoopIdle
    /\ VoteIdle
    /\ SendIdle
    /\ WalletsIdle
    /\ BalancesIdle
    /\ LedgerIdle
    /\ ScriptIdle
    /\ \E address \in Addresses :
          reverse = [pc |-> "idle", address |-> address, name |-> NotCreated,
                     address2 |-> NotCreated, lookups |-> 0, returned |-> NotCreated]

SpecEns == EnsInit /\ [][EnsNext]_vars

(***************************************************************************)
(* What the claims say of the reverse lookup.                              *)
(***************************************************************************)
\* two addresses that differ by the case of their letters at most
SameAddress(a, b) ==
    \A i \in 1..AddressLen : a[i] = b[i] \/ {a[i], b[i]} = {"a", "A"}

\* the reverse lookup has returned a name
ReturnedName == reverse.returned.status = "Ok" /\ reverse.returned.value.tag = "data"
                /\ reverse.returned.value.inner \in EnsNames \ {<<>>}

\* the name was found and its forward lookup made
LookedUp == reverse.pc = "done" /\ reverse.lookups = 1

\* C34: a reverse lookup returns a name only if the forward lookup of that
\* name resolved to the same address, compared without regard to case; it
\* returns the `Invalid address` failure if the forward lookup resolved to
\* another address, the failure of the forward lookup if it failed, and the
\* failure or the empty value of the unchecked lookup without any forward
\* lookup; one forward lookup at most is made.
C34_NameIsCheckedForward ==
    /\ reverse.lookups <= 1
    /\ reverse.pc = "done" /\ reverse.lookups = 0 =>
          /\ reverse.returned = reverse.name
          /\ ~ReturnedName
    /\ LookedUp =>
          /\ reverse.name.status = "Ok" /\ reverse.name.value.tag = "data"
          /\ reverse.name.value.inner \in EnsNames \ {<<>>}
          /\ IF reverse.address2.status = "Err" \/ reverse.address2.value.tag = "fail"
             THEN reverse.returned.value = reverse.address2.value
                  /\ reverse.returned.status = reverse.address2.status
             ELSE IF SameAddress(reverse.address, reverse.address2.value.inner)
                  THEN reverse.returned = reverse.name
                  ELSE reverse.returned = Ok(Fail(InvalidAddress))

\* the name of an address written with a capital was found, its forward
\* lookup resolved to the address in small letters, and the name is returned
C34_Witness ==
    /\ fetcher = "ens" /\ LookedUp /\ ReturnedName
    /\ reverse.address = <<"A", "1">>
    /\ reverse.address2 = Ok(Data(<<"a", "1">>))

(***************************************************************************)
(* The priced balances and their totals (entities/wallets/data.ts): each   *)
(* query is created with an indexer that mutates the query above it, whose *)
(* own indexer then runs within that mutation.  The store runs one         *)
(* mutation of a query at a time, its indexer included.  Fixed numbers are *)
(* taken as exact.                                                         *)
(***************************************************************************)
\* the highest priced balance written
MaxPrice == 1

\* Object.values(values).reduce((x, y) => Fixed.from(y).add(x), new Fixed(0n, 0))
RECURSIVE reduceAdd(_, _)
reduceAdd(values, keys) ==
    IF keys = {} THEN 0
    ELSE LET k == CHOOSE k \in keys : TRUE
         IN values[k] + reduceAdd(values, keys \ {k})

\* the total an indexer computes from a record of values
totalOf(values) == reduceAdd(values, DOMAIN values)

\* Option.wrap(states.current.real?.data).mapSync(d => d.inner).unwrapOr(new Fixed(0n, 0))
valueOf(state) == IF state.present THEN state.inner ELSE 0

\* a record that holds the one key written
spreadNone(p, key, value) == [k \in {key} |-> value]

\* ({ ...p, [key]: value })
spread(p, key, value) == [k \in DOMAIN p \cup {key} |-> IF k = key THEN value ELSE p[k]]

\* a mutation of getPricedBalanceByToken(account) is under way, its indexer
\* included
ByTokenBusy(a) ==
    \E k \in BalanceKeys : balanceIndexing[a][k].pc \in {"walletTotal", "byWallet", "total"}

\* a mutation of getTotalPricedBalanceByWallet is under way, its indexer
\* included
ByWalletBusy ==
    \E a \in Accounts : \E k \in BalanceKeys : balanceIndexing[a][k].pc = "total"

BalanceFrame == UNCHANGED <<fetchVars, loopVars, voteVars, sendVars, walletVars, reverse,
                            ledgerVars, scriptVars>>

\* a mutation of getPricedBalance (key `${chainId}`) or getTokenPricedBalance
\* of an account: its indexer is called and takes the value of the new state
PricedBalanceMutate(a, k) ==
    /\ fetcher = "balances"
    /\ balanceIndexing[a][k].pc = "idle"
    /\ writes < MaxWrites
    /\ \E state \in ({NoBalance} \cup {BalanceData(v) : v \in 0..MaxPrice})
                        \ {pricedBalance[a][k]} :
          /\ pricedBalance' = [pricedBalance EXCEPT ![a][k] = state]
          /\ balanceIndexing' = [balanceIndexing EXCEPT ![a][k] =
                                    [pc |-> "byToken", value |-> valueOf(state), total |-> 0]]
    /\ writes' = writes + 1
    /\ UNCHANGED <<pricedBalanceByToken, totalWalletPricedBalance,
                   totalPricedBalanceByWallet, totalPricedBalance>>
    /\ BalanceFrame

\* indexQuery.tryMutate(Mutators.mapInnerData(p => ({ ...p, [key]: value })))
\* on getPricedBalanceByToken(account), whose indexer computes its total
IndexByToken(a, k) ==
    /\ balanceIndexing[a][k].pc = "byToken"
    /\ ~ByTokenBusy(a)
    /\ LET values == spread(pricedBalanceByToken[a], k, balanceIndexing[a][k].value)
       IN /\ pricedBalanceByToken' = [pricedBalanceByToken EXCEPT ![a] = values]
          /\ balanceIndexing' = [balanceIndexing EXCEPT ![a][k].pc = "walletTotal",
                                                        ![a][k].total = totalOf(values)]
    /\ UNCHANGED <<pricedBalance, totalWalletPricedBalance, totalPricedBalanceByWallet,
                   totalPricedBalance, writes>>
    /\ BalanceFrame

\* totalBalance.tryMutate(Mutators.data(total)) on
\* getTotalWalletPricedBalance(account), whose indexer takes the new value
IndexWalletTotal(a, k) ==
    /\ balanceIndexing[a][k].pc = "walletTotal"
    /\ totalWalletPricedBalance' =
          [totalWalletPricedBalance EXCEPT ![a] = BalanceData(balanceIndexing[a][k].total)]
    /\ balanceIndexing' = [balanceIndexing EXCEPT
                              ![a][k].pc = "byWallet",
                              ![a][k].value = valueOf(BalanceData(balanceIndexing[a][k].total))]
    /\ UNCHANGED <<pricedBalance, pricedBalanceByToken, totalPricedBalanceByWallet,
                   totalPricedBalance, writes>>
    /\ BalanceFrame

\* indexQuery.tryMutate(Mutators.mapInnerData(p => ({ ...p, [account]: value })))
\* on getTotalPricedBalanceByWallet, whose indexer computes its total
IndexByWallet(a, k) ==
    /\ balanceIndexing[a][k].pc = "byWallet"
    /\ ~ByWalletBusy
    /\ LET values == spread(totalPricedBalanceByWallet, a, balanceIndexing[a][k].value)
       IN /\ totalPricedBalanceByWallet' = values
          /\ balanceIndexing' = [balanceIndexing EXCEPT ![a][k].pc = "total",
                                                        ![a][k].total = totalOf(values)]
    /\ UNCHANGED <<pricedBalance, pricedBalanceByToken, totalWalletPricedBalance,
                   totalPricedBalance, writes>>
    /\ BalanceFrame

\* totalBalance.tryMutate(Mutators.data(total)) on getTotalPricedBalance; the
\* four indexers return
IndexTotal(a, k) ==
    /\ balanceIndexing[a][k].pc = "total"
    /\ totalPricedBalance' = BalanceData(balanceIndexing[a][k].total)
    /\ balanceIndexing' = [balanceIndexing EXCEPT ![a][k].pc = "idle"]
    /\ UNCHANGED <<pricedBalance, pricedBalanceByToken, totalWalletPricedBalance,
                   totalPricedBalanceByWallet, writes>>
    /\ BalanceFrame

BalancesNext ==
    \E a \in Accounts : \E k \in BalanceKeys :
        \/ PricedBalanceMutate(a, k)
        \/ IndexByToken(a, k)
        \/ IndexWalletTotal(a, k)
        \/ IndexByWallet(a, k)
        \/ IndexTotal(a, k)

BalancesInit ==
    /\ fetcher = "balances"
    /\ FetchIdle
    /\ LoopIdle
    /\ VoteIdle
    /\ SendIdle
    /\ EntityIdle

SpecBalances == BalancesInit /\ [][BalancesNext]_vars

(***************************************************************************)
(* What the claims say of the totals.                                      *)
(***************************************************************************)
\* the indexers of every priced balance of account a have run
BalancesIndexed(a) == \A k \in BalanceKeys : balanceIndexing[a][k].pc = "idle"

\* the sum of the latest priced balances recorded for account a
LatestSum(a) ==
    valueOf(pricedBalance[a]["1"]) + valueOf(pricedBalance[a]["1/0xt"])

\* the sum of the totals of the wallets
RECURSIVE WalletTotalsUpTo(_)
WalletTotalsUpTo(n) ==
    IF n = 0 THEN 0 ELSE valueOf(totalWalletPricedBalance[n]) + WalletTotalsUpTo(n - 1)

\* C35: after any sequence of updates of priced balances, once the indexers
\* of an account have run its total priced balance is the sum of the latest
\* priced balances recorded for it over its chain and token keys, and once
\* all the indexers have run the global total is the sum of the totals of
\* the wallets.
C35_TotalsAreSums ==
    /\ \A a \in Accounts :
          BalancesIndexed(a) => valueOf(totalWalletPricedBalance[a]) = LatestSum(a)
    /\ (\A a \in Accounts : BalancesIndexed(a)) =>
          valueOf(totalPricedBalance) = WalletTotalsUpTo(NumAccounts)

\* both accounts have a priced balance, the first on its two keys: the total
\* of the first is 2, and the global total is 3
C35_Witness ==
    /\ fetcher = "balances"
    /\ \A a \in Accounts : BalancesIndexed(a)
    /\ pricedBalance[1]["1"] = BalanceData(1) /\ pricedBalance[1]["1/0xt"] = BalanceData(1)
    /\ totalWalletPricedBalance[1] = BalanceData(2)
    /\ totalWalletPricedBalance[2] = BalanceData(1)
    /\ totalPricedBalance = BalanceData(3)

(***************************************************************************)
(* Signing on the Ledger (signPersonalMessageOrThrow and                   *)
(* signTransactionOrThrow): the bytes are read through a cursor and sent   *)
(* in requests, the first with the path in front, each awaited before the  *)
(* next.  A byte of what is signed is named by its place, so that the      *)
(* order of the bytes sent can be told.  The RLP encoding is taken by the  *)
(* lengths of its headers.                                                 *)
(***************************************************************************)
\* the longest message, and the longest list of the six fields of a
\* transaction, in bytes
MaxLength == 310

\* the longest encoding of the chain id and the two empty values that follow
MaxTrailer == 4

\* the deepest derivation path
MaxDepth == 5

\* Math.min(150 - head, ...), Math.min(150, ...)
ChunkSize == 150

\* paths.sizeOrThrow(): one byte for the number of indexes, four per index
PathSizes == {1 + 4 * depth : depth \in 1..MaxDepth}

\* what paths.writeOrThrow(writer) writes
pathsBytes(size) == [i \in 1..size |-> 0]

\* writer.writeUint32OrThrow(n): four bytes, the highest first
uint32Bytes(n) ==
    <<(n \div 16777216) % 256, (n \div 65536) % 256, (n \div 256) % 256, n % 256>>

\* the bytes of what is signed
bytesOf(length) == [i \in 1..length |-> i]

\* the header of an RLP list of `length` bytes
rlpHeader(length) == IF length <= 55 THEN 1 ELSE IF length < 256 THEN 2 ELSE 3

\* the transactions signed: typed (EIP-2718), legacy of six fields, legacy
\* of nine fields (EIP-155), by the length of the six fields and of the rest
Transactions ==
    [kind : {"typed", "legacy"}, fields : 1..MaxLength, trailer : {0}]
        \cup [kind : {"eip155"}, fields : 1..MaxLength, trailer : 3..MaxTrailer]

\* transaction.unsignedSerialized, in bytes
serializedLength(tx) ==
    CASE tx.kind = "typed" -> 1 + rlpHeader(tx.fields) + tx.fields
      [] tx.kind = "legacy" -> rlpHeader(tx.fields) + tx.fields
      [] OTHER -> rlpHeader(tx.fields + tx.trailer) + tx.fields + tx.trailer

\* readLegacyUnprotectedOrThrow: undefined for a typed transaction and for a
\* list that has not nine values, else the encoding of the first six
readLegacyUnprotectedOrThrow(tx) ==
    IF tx.kind = "eip155"
    THEN [defined |-> TRUE, length |-> rlpHeader(tx.fields) + tx.fields]
    ELSE [defined |-> FALSE, length |-> 0]

\* reader.remaining
remaining(r) == Len(r.bytes) - r.offset

\* reader.readOrThrow(body)
readOrThrow(r, body) == SubSeq(r.bytes, r.offset + 1, r.offset + body)

\* the head without the four bytes of the length
messageHeadOfPath(size) == size

\* const head = paths.sizeOrThrow() + 4
messageHead(size) == size + 4

\* a chunk is extended only once it goes beyond the unprotected part
transactionBodyBeyond(limit, r, unprotected) ==
    LET body == Min(limit, remaining(r))
    IN IF unprotected.defined /\ r.offset + body > unprotected.length
       THEN remaining(r) ELSE body

\* let body = Math.min(limit, reader.remaining), and
\* if (unprotected != null && reader.offset + body >= unprotected.length)
\*   body = reader.remaining
transactionBody(limit, r, unprotected) ==
    LET body == Min(limit, remaining(r))
    IN IF unprotected.defined /\ r.offset + body >= unprotected.length
       THEN remaining(r) ELSE body

LedgerFrame == UNCHANGED <<fetchVars, loopVars, voteVars, sendVars, walletVars, writes,
                           reverse, balanceVars, scriptVars>>

\* a request is sent with `body` bytes read from the reader behind `front`
Requested(p1, front, body) ==
    /\ requests' = Append(requests, [p1 |-> p1, fragment |-> front \o readOrThrow(reader, body)])
    /\ reader' = [reader EXCEPT !.offset = @ + body]
    /\ ledgerPc' = "requested"

\* signPersonalMessageOrThrow, up to the await of its first request
SignPersonalMessageCalled ==
    /\ fetcher = "ledger"
    /\ ledgerPc = "idle" /\ signing.kind = "message"
    /\ LET head == messageHead(signing.path)
           body == Min(ChunkSize - head, remaining(reader))
       IN Requested(0, pathsBytes(signing.path) \o uint32Bytes(Len(reader.bytes)), body)
    /\ UNCHANGED <<signing, response, signature>>
    /\ LedgerFrame

\* the device has answered: while (reader.remaining) the next request is
\* sent, else the signature is read from the response
SignPersonalMessageResponded ==
    /\ ledgerPc = "requested" /\ signing.kind = "message"
    /\ response' = Len(requests)
    /\ IF remaining(reader) # 0
       THEN /\ Requested(128, <<>>, Min(ChunkSize, remaining(reader)))
            /\ UNCHANGED signature
       ELSE /\ signature' = response'
            /\ ledgerPc' = "done"
            /\ UNCHANGED <<reader, requests>>
    /\ UNCHANGED signing
    /\ LedgerFrame

\* signTransactionOrThrow, up to the await of its first request
SignTransactionCalled ==
    /\ fetcher = "ledger"
    /\ ledgerPc = "idle" /\ signing.kind = "transaction"
    /\ LET head == signing.path
           body == transactionBody(ChunkSize - head, reader, signing.unprotected)
       IN Requested(0, pathsBytes(signing.path), body)
    /\ UNCHANGED <<signing, response, signature>>
    /\ LedgerFrame

\* the device has answered: while (reader.remaining) the next request is
\* sent, else the signature is read from the response
SignTransactionResponded ==
    /\ ledgerPc = "requested" /\ signing.kind = "transaction"
    /\ response' = Len(requests)
    /\ IF remaining(reader) # 0
       THEN /\ Requested(128, <<>>, transactionBody(ChunkSize, reader, signing.unprotected))
            /\ UNCHANGED signature
       ELSE /\ signature' = response'
            /\ ledgerPc' = "done"
            /\ UNCHANGED <<reader, requests>>
    /\ UNCHANGED signing
    /\ LedgerFrame

LedgerNext ==
    \/ SignPersonalMessageCalled
    \/ SignPersonalMessageResponded
    \/ SignTransactionCalled
    \/ SignTransactionResponded

\* a message or a transaction to sign, on any path
LedgerInit ==
    /\ fetcher = "ledger"
    /\ FetchIdle
    /\ LoopIdle
    /\ VoteIdle
    /\ SendIdle
    /\ WalletsIdle
    /\ ReverseIdle
    /\ BalancesIdle
    /\ ScriptIdle
    /\ ledgerPc = "idle"
    /\ requests = <<>>
    /\ response = 0
    /\ signature = 0
    /\ \E size \in PathSizes :
          \/ \E length \in 0..MaxLength :
                /\ signing = [kind |-> "message", path |-> size]
                /\ reader = [bytes |-> bytesOf(length), offset |-> 0]
          \/ \E tx \in Transactions :
                /\ signing = [kind |-> "transaction", path |-> size, tx |-> tx,
                              unprotected |-> readLegacyUnprotectedOrThrow(tx)]
                /\ reader = [bytes |-> bytesOf(serializedLength(tx)), offset |-> 0]

SpecLedger == LedgerInit /\ [][LedgerNext]_vars

(***************************************************************************)
(* What the claims say of the requests sent to the Ledger.                 *)
(***************************************************************************)
\* the bytes of what is signed that request n carries
RECURSIVE Carried(_)
Carried(n) ==
    IF n = 0 THEN <<>>
    ELSE LET f == requests[n].fragment
             skip == IF n > 1 THEN 0
                     ELSE IF signing.kind = "message" THEN signing.path + 4
                     ELSE signing.path
         IN Carried(n - 1) \o SubSeq(f, skip + 1, Len(f))

\* the place in the serialized transaction where the six unprotected fields
\* end and the chain id begins
UnprotectedEnd == rlpHeader(signing.tx.fields + signing.tx.trailer) + signing.tx.fields

\* a replay-protected transaction is being signed
SigningProtected ==
    fetcher = "ledger" /\ signing.kind = "transaction" /\ signing.tx.kind = "eip155"

\* C36: when a legacy replay-protected transaction is signed, a chunk that
\* ends at or beyond the end of the unprotected part carries all the bytes
\* that remained, so that it is the last and the trailer is in no chunk of
\* its own; the chunks sent so far are the serialized transaction up to the
\* offset of the reader, and the whole of it once the signing is done.
C36_ProtectionIsNotSplit ==
    SigningProtected =>
        /\ Carried(Len(requests)) = SubSeq(reader.bytes, 1, reader.offset)
        /\ reader.offset >= UnprotectedEnd => reader.offset = Len(reader.bytes)
        /\ \A n \in 1..Len(requests) :
              Len(Carried(n)) >= UnprotectedEnd => n = Len(requests)
        /\ ledgerPc = "done" => Carried(Len(requests)) = reader.bytes

\* a transaction whose six fields end with the first chunk, on a path of 21
\* bytes: the first request carries the three bytes of the trailer as well
C36_Witness ==
    /\ SigningProtected /\ ledgerPc = "done"
    /\ signing.path = 21
    /\ UnprotectedEnd = ChunkSize - signing.path
    /\ Len(requests) = 1
    /\ Len(requests[1].fragment) = ChunkSize + signing.tx.trailer

\* a personal message is being signed
SigningMessage == fetcher = "ledger" /\ signing.kind = "message"

\* C37: when a personal message is signed, its bytes are sent once and in
\* order across the requests; the first request has p1 = 0x00 and carries
\* the path, the length of the message on four bytes and message bytes, 150
\* bytes at most in all; each following request has p1 = 0x80 and carries 150
\* bytes at most; one request at least is sent, even for an empty message;
\* and the signature is read from the response to the last request.
C37_MessageSentOnceInOrder ==
    SigningMessage =>
        /\ Carried(Len(requests)) = SubSeq(reader.bytes, 1, reader.offset)
        /\ ledgerPc = "done" => Carried(Len(requests)) = reader.bytes
        /\ ledgerPc # "idle" => Len(requests) >= 1
        /\ \A n \in 1..Len(requests) :
              /\ requests[n].p1 = IF n = 1 THEN 0 ELSE 128
              /\ Len(requests[n].fragment) <= 150
              /\ n = 1 => SubSeq(requests[n].fragment, 1, signing.path + 4)
                             = pathsBytes(signing.path) \o uint32Bytes(Len(reader.bytes))
        /\ ledgerPc = "done" => signature = Len(requests) /\ response = Len(requests)

\* a message of 300 bytes on a path of 21 bytes was sent in three requests,
\* the first of 150 bytes in all, and the signature is the third response
C37_Witness ==
    /\ SigningMessage /\ ledgerPc = "done"
    /\ signing.path = 21 /\ Len(reader.bytes) = 300
    /\ Len(requests) = 3 /\ signature = 3
    /\ Len(requests[1].fragment) = 150
    /\ Len(requests[2].fragment) = 150
    /\ Len(requests[3].fragment) = 25

(***************************************************************************)
(* The content script (content_script/index.ts): a pool of one entry; the  *)
(* creator of the entry connects a port to the background, listens to the  *)
(* `ethereum:request` events of the page, and restarts the entry when the  *)
(* port closes.  A request on a port that has closed fails.                *)
(***************************************************************************)
\* the events of the page that are followed
NumEvents == 3

\* the entries the pool creates
MaxEntries == 3

\* what router.inner.tryRequest returns: the result or the error of the
\* background, or the failure of the request
Failure == Err(ExchangeError)
BackgroundReturns == {Ok(Ok(NoValue)), Ok(Err(RpcError)), Failure}

\* result.andThenSync(r => r)
andThenSync(result) == IF result.status = "Ok" THEN result.value ELSE result

\* RpcResponse.rewrap(request.id, result.andThenSync(r => r))
rewrap(id, result) ==
    [id |-> id, kind |-> IF andThenSync(result).status = "Ok" THEN "result" ELSE "error"]

\* an entry cleaned with its listener left on the window
onEntryCleanKept(ls, n) == ls

\* onEntryClean: window.removeEventListener("ethereum:request", onScriptRequest)
onEntryClean(ls, n) == ls \ {n}

\* the port of entry n is connected
PortOpen(n) == n = entry.n /\ entry.pc \in {"icon", "ready"}

ScriptFrame == UNCHANGED <<fetchVars, loopVars, voteVars, sendVars, walletVars, writes,
                           reverse, balanceVars, ledgerVars>>

\* the creator of the entry, after its timer: browser.runtime.connect throws
\* and the creation fails, or the port is connected, onScriptRequest is added
\* to the window and the icon is requested
EntryConnected ==
    /\ fetcher = "script"
    /\ entry.pc = "timer"
    /\ \/ /\ entry' = [entry EXCEPT !.pc = "failed"]
          /\ UNCHANGED listeners
       \/ /\ entry' = [entry EXCEPT !.pc = "icon"]
          /\ listeners' = listeners \cup {entry.n}
    /\ UNCHANGED <<handlers, dispatched>>
    /\ ScriptFrame

\* the request of the icon has returned: the entry is handed to the pool,
\* or the creation fails and `using preentry` cleans the entry
IconReturned ==
    /\ entry.pc = "icon"
    /\ \/ /\ entry' = [entry EXCEPT !.pc = "ready"]
          /\ UNCHANGED listeners
       \/ /\ entry' = [entry EXCEPT !.pc = "failed"]
          /\ listeners' = onEntryClean(listeners, entry.n)
    /\ UNCHANGED <<handlers, dispatched>>
    /\ ScriptFrame

\* the port has closed: onClose dispatches `ethereum:disconnect` and restarts
\* the entry, which is cleaned, and the creator runs again up to its timer
OnClose ==
    /\ PortOpen(entry.n)
    /\ entry.n < MaxEntries
    /\ listeners' = onEntryClean(listeners, entry.n)
    /\ entry' = [n |-> entry.n + 1, pc |-> "timer"]
    /\ UNCHANGED <<handlers, dispatched>>
    /\ ScriptFrame

\* the page dispatches an `ethereum:request` event: onScriptRequest of each
\* listener parses it and requests brume_run on its port
OnScriptRequest ==
    /\ fetcher = "script"
    /\ Len(handlers) < NumEvents
    /\ handlers' = Append(handlers, [on |-> listeners, got |-> {}])
    /\ UNCHANGED <<entry, listeners, dispatched>>
    /\ ScriptFrame

\* the request of onScriptRequest has returned on entry n for event e: the
\* response is rewrapped with the id of the request and dispatched
OnScriptResponse(e, n) ==
    /\ n \in handlers[e].on
    /\ \A g \in handlers[e].got : g.by # n
    /\ \E result \in IF PortOpen(n) THEN BackgroundReturns ELSE {Failure} :
          /\ handlers' = [handlers EXCEPT ![e].got = @ \cup {[by |-> n, result |-> result]}]
          /\ dispatched' = Append(dispatched, rewrap(e, result))
    /\ UNCHANGED <<entry, listeners>>
    /\ ScriptFrame

ScriptResponds == \E e \in DOMAIN handlers : \E n \in 1..MaxEntries : OnScriptResponse(e, n)

ScriptNext ==
    \/ EntryConnected
    \/ IconReturned
    \/ OnClose
    \/ OnScriptRequest
    \/ ScriptResponds

\* the pool has started the creator of its entry
ScriptInit ==
    /\ fetcher = "script"
    /\ FetchIdle
    /\ LoopIdle
    /\ VoteIdle
    /\ SendIdle
    /\ WalletsIdle
    /\ ReverseIdle
    /\ BalancesIdle
    /\ LedgerIdle
    /\ entry = [n |-> 1, pc |-> "timer"]
    /\ listeners = {}
    /\ handlers = <<>>
    /\ dispatched = <<>>

SpecScript == ScriptInit /\ [][ScriptNext]_vars

\* a request to the background returns: with the response of the background,
\* or with a failure once its port has closed
ScriptFairness == WF_vars(ScriptResponds)

SpecScriptLive == SpecScript /\ ScriptFairness

(***************************************************************************)
(* What the claims say of the responses to the page.                       *)
(***************************************************************************)
\* the responses dispatched that carry id e
ResponsesTo(e) == {n \in DOMAIN dispatched : dispatched[n].id = e}

\* event e was received by the content script
Received(e) == e \in DOMAIN handlers /\ handlers[e].on # {}

\* what holds of the responses at any time: one at most carries the id of a
\* request, none that of an event that was not received, and it is a
\* success if the background returned a result, an error otherwise
OneResponseAtMost ==
    /\ \A n \in DOMAIN dispatched : Received(dispatched[n].id)
    /\ \A e \in DOMAIN handlers :
          /\ Cardinality(ResponsesTo(e)) <= 1
          /\ Cardinality(ResponsesTo(e)) = Cardinality(handlers[e].got)
          /\ \A n \in ResponsesTo(e) : \A g \in handlers[e].got :
                dispatched[n].kind = IF g.result = Ok(Ok(NoValue)) THEN "result" ELSE "error"

\* C38: for every `ethereum:request` event received from the page the
\* content script dispatches exactly one `ethereum:response` event with the
\* id of that request: never more than one, and one in the end; a success
\* if the background returned a result, an error if it returned an error or
\* if the request to the background failed.
C38_OneResponsePerRequest ==
    /\ []OneResponseAtMost
    /\ \A e \in 1..NumEvents : Received(e) ~> ResponsesTo(e) # {}

\* a request was received on the first entry, whose port closed before the
\* background answered: the second entry is ready, a second request got its
\* result, and the first got the one error response
C38_Witness ==
    /\ fetcher = "script" /\ entry = [n |-> 2, pc |-> "ready"]
    /\ Len(handlers) = 2 /\ handlers[1].on = {1} /\ handlers[2].on = {2}
    /\ dispatched = <<[id |-> 2, kind |-> "result"], [id |-> 1, kind |-> "error"]>>

====
